---- MODULE Spec2Model ----
(***************************************************************************)
(* Behavioural feature extraction of the bot-detection backend:            *)
(* FeatureExtractor (feature_extractor.py), its utilities                  *)
(* (feature_utils.py), the session aggregation of DatasetBuilder           *)
(* (dataset_builder.py) and the SignalDataLoader it reads its batches      *)
(* with (data_loader.py); and the storage side: the SignalCollector        *)
(* (signal_collector.py) behind POST /api/signals (app.py, helpers.py).    *)
(*                                                                         *)
(* Files.  The signals file is held as the sequence of its lines, a line   *)
(* as the record it encodes.  An append by threads that take no lock is a  *)
(* choice between the two ways a runtime carries it out: in one step, or   *)
(* as a seek to the end followed by the write.                             *)
(*                                                                         *)
(* Numbers.  Coordinates and timestamps are integers.  A square root is    *)
(* kept exactly, as k * sqrt(s) with s square-free; sums of square roots   *)
(* are kept as a map s -> coefficient and ordered by integer enclosures.   *)
(* Floating-point rounding of the last bit is not modelled.                *)
(***************************************************************************)
EXTENDS Integers, Sequences, FiniteSets, TLC

VARIABLES
    moves, clicks, keys,    \* the batch handed to the extractor
    dp, dpc,                \* detectPauses: its locals and its position
    features, epc,          \* extractBatchFeatures: its dict and its position
    items, entropy,         \* calculateEntropy: its argument and its result
    jsonl,                  \* the signals file of the DatasetBuilder
    signalsDf,              \* DatasetBuilder: the frame loadSignals returned
    featureRows, batchDf,   \* buildBatchLevelDataset: its rows and its frame
    sessionRows, sessionDf, \* buildSessionLevelDataset: its rows and its frame
    spc,                    \* DatasetBuilder: its position
    invalidCount,           \* loadSignals: its count of skipped lines
    returned,               \* the frames earlier buildSessionLevelDataset calls returned
    call,                   \* the running extractBatchFeatures calls of one extractor
    signalsFile,            \* the lines of the signals file of the SignalCollector
    request                 \* the POST /api/signals requests being handled

vars == <<moves, clicks, keys, dp, dpc, features, epc, items, entropy, jsonl,
          signalsDf, featureRows, batchDf, sessionRows, sessionDf, spc,
          invalidCount, returned, call, signalsFile, request>>
batchVars == <<moves, clicks, keys>>
pauseVars == <<dp, dpc>>
extractVars == <<features, epc>>
entropyVars == <<items, entropy>>
datasetVars == <<jsonl, signalsDf, featureRows, batchDf, sessionRows, sessionDf, spc>>
buildVars == <<invalidCount, returned>>
callVars == <<call>>
serverVars == <<signalsFile, request>>

\* ---------------------------------------------------------------- bounds
MaxMoves == 4
MaxPath == 3
MaxEvents == 2
MaxBatches == 3
MaxClicks == 3
MaxKeys == 4
MaxItems == 6
MaxBuilds == 2
MaxWorkers == 2
MaxRequests == 3

\* ------------------------------------------------------------- constants
pauseDistThresh == 5
pauseDurThresh == 1000

\* --------------------------------------------------------------- helpers
RECURSIVE SumSeq(_)
SumSeq(s) == IF s = <<>> THEN 0 ELSE Head(s) + SumSeq(Tail(s))

Prefix(s, n) == [j \in 1..n |-> s[j]]

Max2(a, b) == IF a >= b THEN a ELSE b

Abs(a) == IF a < 0 THEN 0 - a ELSE a

RECURSIVE GCD(_, _)
GCD(a, b) == IF b = 0 THEN a ELSE GCD(b, a % b)

\* ------------------------------------------------------- float arithmetic
\* A float is kept exactly.  A rational is <<n, d>>, d > 0, in lowest terms.
QNorm(n, d) ==
    LET g == GCD(Abs(n), Abs(d))
        sg == IF d < 0 THEN 0 - 1 ELSE 1
    IN <<(sg * n) \div g, (sg * d) \div g>>

QAdd(a, b) == QNorm(a[1] * b[2] + b[1] * a[2], a[2] * b[2])
QMul(a, b) == QNorm(a[1] * b[1], a[2] * b[2])
QDiv(a, b) == QNorm(a[1] * b[2], a[2] * b[1])
QNeg(a) == <<0 - a[1], a[2]>>
QLess(a, b) == a[1] * b[2] < b[1] * a[2]

\* A real number is a map atom -> non-zero rational coefficient, standing for
\* the sum of coefficient * atom; the atom s >= 1 (square-free) is sqrt(s), so
\* atom 1 carries the rational part, and the atom -p (p an odd prime) is
\* log2(p).  These atoms are linearly independent over the rationals, so two
\* numbers are equal exactly when their maps are equal.
NCoef(x, a) == IF a \in DOMAIN x THEN x[a] ELSE <<0, 1>>

NClean(x) == [a \in {b \in DOMAIN x : x[b][1] # 0} |-> x[a]]

NZero == [a \in {} |-> <<0, 1>>]
NOfQ(q) == NClean([a \in {1} |-> q])
NOfInt(n) == NOfQ(<<n, 1>>)
NAtom(a, q) == NClean([b \in {a} |-> q])

NAdd(x, y) ==
    NClean([a \in DOMAIN x \cup DOMAIN y |-> QAdd(NCoef(x, a), NCoef(y, a))])
NScale(q, x) == NClean([a \in DOMAIN x |-> QMul(q, x[a])])
NSub(x, y) == NAdd(x, NScale(<<0 - 1, 1>>, y))

NIsRational(x) == DOMAIN x \subseteq {1}
NRat(x) == NCoef(x, 1)

RECURSIVE NSumSeq(_)
NSumSeq(xs) == IF xs = <<>> THEN NZero ELSE NAdd(Head(xs), NSumSeq(Tail(xs)))

\* floor(sqrt(n)), by bisection on lo <= sqrt(n) < hi
RECURSIVE ISqrtIn(_, _, _)
ISqrtIn(n, lo, hi) ==
    IF hi - lo <= 1 THEN lo
    ELSE LET mid == (lo + hi) \div 2
         IN IF mid * mid <= n THEN ISqrtIn(n, mid, hi) ELSE ISqrtIn(n, lo, mid)

\* integer enclosure <<lo, hi>> of 1000 * atom
AtomBounds(a) ==
    IF a = 1 THEN <<1000, 1000>>
    ELSE IF a > 1
         THEN LET r == ISqrtIn(a * 1000000, 0, 46340)
              IN <<r, r + 1>>
         ELSE IF a = 0 - 3 THEN <<1584, 1585>>
         ELSE IF a = 0 - 5 THEN <<2321, 2322>>
         ELSE <<2807, 2808>>

RECURSIVE LcmDen(_, _)
LcmDen(x, as) ==
    IF as = {} THEN 1
    ELSE LET a == CHOOSE b \in as : TRUE
             l == LcmDen(x, as \ {a})
         IN (l \div GCD(l, x[a][2])) * x[a][2]

RECURSIVE BoundSum(_, _, _, _)
BoundSum(x, as, den, upper) ==
    IF as = {} THEN 0
    ELSE LET a == CHOOSE b \in as : TRUE
             m == x[a][1] * (den \div x[a][2])
             b == AtomBounds(a)
             pick == IF (m >= 0) = upper THEN b[2] ELSE b[1]
         IN m * pick + BoundSum(x, as \ {a}, den, upper)

\* the sign of a real number, -1, 0 or 1, decided by the enclosures; the
\* CHOOSE has no value (and evaluation stops) should they fail to decide
NSign(x) ==
    IF DOMAIN x = {} THEN 0
    ELSE LET den == LcmDen(x, DOMAIN x)
             lo == BoundSum(x, DOMAIN x, den, FALSE)
             hi == BoundSum(x, DOMAIN x, den, TRUE)
         IN CHOOSE sg \in {0 - 1, 1} : IF sg = 1 THEN lo > 0 ELSE hi < 0

NLess(x, y) == NSign(NSub(x, y)) < 0
NLeq(x, y) == NSign(NSub(x, y)) <= 0
NMax(x, y) == IF NLess(x, y) THEN y ELSE x

\* ---------------------------------------------------- MouseTrajectoryUtils
\* math.sqrt(n) for an integer n >= 0, exactly: <<k, s>> stands for
\* k * sqrt(s), s square-free; 0 is <<0, 1>>.
SqrtExact(n) ==
    IF n = 0 THEN <<0, 1>>
    ELSE LET k == CHOOSE c \in 1..n :
                     /\ n % (c * c) = 0
                     /\ \A e \in (c + 1)..n : n % (e * e) # 0
         IN <<k, n \div (k * k)>>

\* the radicand of a square root, k*k*s
Radicand(r) == r[1] * r[1] * r[2]

\* distance(pointOne, pointTwo) = sqrt(dx**2 + dy**2)
distance(pointOne, pointTwo) ==
    LET dx == pointTwo[1] - pointOne[1]
        dy == pointTwo[2] - pointOne[2]
    IN SqrtExact(dx * dx + dy * dy)

\* a square root compared with a non-negative integer: r < t
RootLess(r, t) == Radicand(r) < t * t

\* extractCoordinatesAndTimes(moves) -> coords, timeDeltas
extractCoordinatesAndTimes(mv) ==
    IF Len(mv) < 2 THEN [coords |-> <<>>, timeDeltas |-> <<>>]
    ELSE [coords     |-> [j \in 1..Len(mv) |-> <<mv[j].x, mv[j].y>>],
          timeDeltas |-> [j \in 1..(Len(mv) - 1) |-> mv[j + 1].ts - mv[j].ts]]

Distances(coords) ==
    [j \in 1..(Len(coords) - 1) |-> distance(coords[j], coords[j + 1])]

\* a square root as a real number
RootNum(r) == IF r[1] = 0 THEN NZero ELSE NAtom(r[2], <<r[1], 1>>)

\* x / r for a real x made of square roots and a square root r = k*sqrt(s),
\* k > 0: sqrt(a) / sqrt(s) = g * sqrt(a*s / g^2) / s with g = gcd(a, s)
RECURSIVE NDivRootIn(_, _, _)
NDivRootIn(x, as, r) ==
    IF as = {} THEN NZero
    ELSE LET a == CHOOSE b \in as : TRUE
             g == GCD(a, r[2])
             term == NAtom((a \div g) * (r[2] \div g),
                           QMul(x[a], <<g, r[1] * r[2]>>))
         IN NAdd(term, NDivRootIn(x, as \ {a}, r))

NDivRoot(x, r) == NDivRootIn(x, DOMAIN x, r)

\* ------------------------------------------------------------ float values
\* the value of a feature: a number, NaN, or an exact term for a value that
\* is no sum of square roots and logarithms
Float(x) == [t |-> "num", v |-> x]
Zero == Float(NZero)
NaN == [t |-> "nan"]
IsNum(v) == v.t = "num"

\* velocityPixelsPerSecond(distancePx, timeMs)
velocityPixelsPerSecond(distancePx, timeMs) ==
    IF timeMs <= 0 THEN NZero
    ELSE NScale(<<1000, timeMs>>, RootNum(distancePx))

\* abs(math.atan2(y, x)): 0.0 on the non-negative x axis (atan2(0, 0) is 0.0),
\* otherwise the term atan2(|y|, x) reduced to the direction of (|y|, x);
\* pi is atan2(0, -1) and pi/2 is atan2(1, 0)
AbsAtan2(y, x) ==
    IF y = 0 /\ x >= 0 THEN Zero
    ELSE LET g == GCD(Abs(y), Abs(x))
         IN [t |-> "atan2", y |-> Abs(y) \div g, x |-> x \div g]

Pi == [t |-> "atan2", y |-> 0, x |-> 0 - 1]

\* angleBetween(pointOne, pointTwo, pointThree)
angleBetween(pointOne, pointTwo, pointThree) ==
    LET vectorOne == <<pointOne[1] - pointTwo[1], pointOne[2] - pointTwo[2]>>
        vectorTwo == <<pointThree[1] - pointTwo[1], pointThree[2] - pointTwo[2]>>
        dot == vectorOne[1] * vectorTwo[1] + vectorOne[2] * vectorTwo[2]
        det == vectorOne[1] * vectorTwo[2] - vectorOne[2] * vectorTwo[1]
    IN AbsAtan2(det, dot)

\* ------------------------------------------------------------ numpy / pandas
Range(xs) == {xs[j] : j \in DOMAIN xs}

\* np.mean of a non-empty sequence of numbers
NpMean(xs) == NScale(<<1, Len(xs)>>, NSumSeq(xs))

RECURSIVE NpMax(_)
NpMax(xs) == IF Len(xs) = 1 THEN xs[1] ELSE NMax(NpMax(Tail(xs)), Head(xs))

RECURSIVE NpMin(_)
NpMin(xs) ==
    IF Len(xs) = 1 THEN xs[1]
    ELSE LET m == NpMin(Tail(xs)) IN IF NLess(Head(xs), m) THEN Head(xs) ELSE m

RECURSIVE QSumSq(_, _)
QSumSq(qs, mean) ==
    IF qs = <<>> THEN <<0, 1>>
    ELSE LET dev == QAdd(Head(qs), QNeg(mean))
         IN QAdd(QMul(dev, dev), QSumSq(Tail(qs), mean))

IsSquare(n) == LET r == ISqrtIn(n, 0, 46340) IN r * r = n

\* the square root of a rational q >= 0: a number when q is a square,
\* otherwise the term sqrt(q)
SqrtQ(q) ==
    IF IsSquare(q[1]) /\ IsSquare(q[2])
    THEN Float(NOfQ(<<ISqrtIn(q[1], 0, 46340), ISqrtIn(q[2], 0, 46340)>>))
    ELSE [t |-> "sqrt", q |-> q]

\* the standard deviation of the values xs with divisor Len(xs) - ddof
\* (np.std has ddof 0, pandas Series.std has ddof 1): NaN when the divisor is
\* not positive, 0 when all values are equal, sqrt(variance) for rationals,
\* otherwise the term std(xs)
StdDev(xs, ddof) ==
    IF Len(xs) - ddof <= 0 THEN NaN
    ELSE IF \A j \in DOMAIN xs : xs[j] = xs[1] THEN Zero
    ELSE IF \A j \in DOMAIN xs : IsNum(xs[j]) /\ NIsRational(xs[j].v)
         THEN LET qs == [j \in DOMAIN xs |-> NRat(xs[j].v)]
                  mean == NRat(NpMean([j \in DOMAIN xs |-> xs[j].v]))
              IN SqrtQ(QDiv(QSumSq(qs, mean), <<Len(xs) - ddof, 1>>))
         ELSE [t |-> "std", xs |-> xs, ddof |-> ddof]

NpStd(xs) == StdDev([j \in DOMAIN xs |-> Float(xs[j])], 0)

\* ------------------------------------------------------------ KeystrokeUtils
\* log2(n) for n >= 1 with prime factors among 2, 3, 5, 7
RECURSIVE Log2Num(_)
Log2Num(n) ==
    IF n = 1 THEN NZero
    ELSE LET p == CHOOSE c \in 2..n : n % c = 0 /\ \A e \in 2..(c - 1) : n % e # 0
         IN NAdd(IF p = 2 THEN NOfInt(1) ELSE NAtom(0 - p, <<1, 1>>),
                 Log2Num(n \div p))

\* Counter(items): item -> number of occurrences
Counter(its) ==
    [v \in Range(its) |-> Cardinality({j \in DOMAIN its : its[j] = v})]

RECURSIVE EntropySum(_, _, _)
EntropySum(counts, vs, total) ==
    IF vs = {} THEN NZero
    ELSE LET v == CHOOSE w \in vs : TRUE
             count == counts[v]
             \* - p * log2(p), p = count / total
             term == NScale(<<count, total>>, NSub(Log2Num(total), Log2Num(count)))
         IN NAdd(term, EntropySum(counts, vs \ {v}, total))

\* calculateEntropy(items) with p = count / number of distinct items
calculateEntropyOverDistinct(its) ==
    IF Len(its) = 0 THEN NZero
    ELSE LET counts == Counter(its)
         IN EntropySum(counts, DOMAIN counts, Cardinality(DOMAIN counts))

\* calculateEntropy(items)
calculateEntropy(its) ==
    IF Len(its) = 0 THEN NZero
    ELSE LET counts == Counter(its)
         IN EntropySum(counts, DOMAIN counts, Len(its))

\* interKeyDelays(keys)
interKeyDelays(ks) ==
    IF Len(ks) < 2 THEN <<>>
    ELSE [j \in 1..(Len(ks) - 1) |-> ks[j + 1].ts - ks[j].ts]

\* ------------------------------------------------ FeatureExtractor.detectPauses
\* the locals of detectPauses before the loop (lines 155-158); i is the
\* 0-based loop index of enumerate
DPStart ==
    [i |-> 0, isPaused |-> FALSE, pauseStartMs |-> 0,
     pauseCount |-> 0, totalPauseMs |-> 0]

\* the body of one loop iteration, lines 162-176
DPLoopBody(s, distances, timeDeltas) ==
    LET dist == distances[s.i + 1]
        elapsedUntilSegmentStart == SumSeq(Prefix(timeDeltas, s.i))
    IN IF RootLess(dist, pauseDistThresh)
       THEN IF ~s.isPaused
            THEN [s EXCEPT !.isPaused = TRUE,
                           !.pauseStartMs = elapsedUntilSegmentStart]
            ELSE s
       ELSE IF s.isPaused
            THEN LET pauseDuration == elapsedUntilSegmentStart - s.pauseStartMs
                 IN IF pauseDuration >= pauseDurThresh
                    THEN [s EXCEPT !.pauseCount = @ + 1,
                                   !.totalPauseMs = pauseDuration,
                                   !.isPaused = FALSE]
                    ELSE [s EXCEPT !.isPaused = FALSE]
            ELSE s

\* "Handle ongoing pause at end", lines 179-184
DPEndCheck(s, timeDeltas) ==
    IF s.isPaused
    THEN LET totalElapsed == SumSeq(timeDeltas)
             pauseDuration == totalElapsed - s.pauseStartMs
         IN IF pauseDuration >= pauseDurThresh
            THEN [s EXCEPT !.pauseCount = @ + 1,
                           !.totalPauseMs = @ + pauseDuration]
            ELSE s
    ELSE s

\* the value detectPauses returns for coords with at least 2 points: the
\* return statement (line 186) stands inside the loop body, so the call
\* ends with the first iteration
detectPauses(coords, timeDeltas) ==
    LET s == DPEndCheck(DPLoopBody(DPStart, Distances(coords), timeDeltas),
                        timeDeltas)
    IN <<s.pauseCount, s.totalPauseMs>>

\* ---------------------------------------------------- FeatureExtractor
\* features.update(other): the keys of other replace those of features
Update(feats, other) == other @@ feats

OfInt(n) == Float(NOfInt(n))
OfQ(n, d) == Float(NOfQ(QNorm(n, d)))

\* dict.get(key, default)
Get(d, key, default) == IF key \in DOMAIN d THEN d[key] ELSE default

\* [e[key] for e in events] raises KeyError: some event has no such key
KeyError(events, key) == \E j \in DOMAIN events : key \notin DOMAIN events[j]

\* "Path efficiency = total path / straight line", lines 121-124, with the
\* first segment left out of the total
pathEfficiencySkipFirst(coords) ==
    LET distances == Distances(coords)
        totalDistance ==
            NSumSeq([j \in 1..(Len(distances) - 1) |-> RootNum(distances[j + 1])])
        straightLine == distance(coords[1], coords[Len(coords)])
        floored == IF RootLess(straightLine, 1) THEN <<1, 1>> ELSE straightLine
    IN NDivRoot(totalDistance, floored)

\* "Path efficiency = total path / straight line", lines 121-124
pathEfficiency(coords) ==
    LET distances == Distances(coords)
        totalDistance == NSumSeq([j \in DOMAIN distances |-> RootNum(distances[j])])
        straightLine == distance(coords[1], coords[Len(coords)])
        \* max(straightLine, 1.0)
        floored == IF RootLess(straightLine, 1) THEN <<1, 1>> ELSE straightLine
    IN NDivRoot(totalDistance, floored)

\* "Edge Case - if fewer than 2 moves", lines 83-94, with the move count
\* reported as 0.0
fewMovesNoCount(mv) ==
    ("mouseMoveCount" :> Zero)
    @@ ("mouseAvgVelocity" :> Zero)
    @@ ("mouseStdVelocity" :> Zero)
    @@ ("mouseMaxVelocity" :> Zero)
    @@ ("mousePauseCount" :> Zero)
    @@ ("mouseAvgPauseDurationMs" :> Zero)
    @@ ("mousePathEfficiency" :> Zero)
    @@ ("mouseAngularVelocityStd" :> Zero)
    @@ ("mouseHoverTimeRatio" :> Zero)
    @@ ("mouseHoverFrequency" :> Zero)

\* "Edge Case - if fewer than 2 moves", lines 83-94
fewMoves(mv) ==
    ("mouseMoveCount" :> OfInt(Len(mv)))
    @@ ("mouseAvgVelocity" :> Zero)
    @@ ("mouseStdVelocity" :> Zero)
    @@ ("mouseMaxVelocity" :> Zero)
    @@ ("mousePauseCount" :> Zero)
    @@ ("mouseAvgPauseDurationMs" :> Zero)
    @@ ("mousePathEfficiency" :> Zero)
    @@ ("mouseAngularVelocityStd" :> Zero)
    @@ ("mouseHoverTimeRatio" :> Zero)
    @@ ("mouseHoverFrequency" :> Zero)

\* extractMouseFeatures raises KeyError: with 2 or more moves
\* extractCoordinatesAndTimes reads m['x'], m['y'] and m['ts'] of every move
\* (line 98; feature_utils.py lines 152, 156)
mouseKeyError(mv) ==
    Len(mv) >= 2 /\ (KeyError(mv, "x") \/ KeyError(mv, "y") \/ KeyError(mv, "ts"))

\* extractMouseFeatures(moves)
extractMouseFeatures(mv) ==
    IF Len(mv) < 2
    THEN fewMoves(mv)
    ELSE LET coords == extractCoordinatesAndTimes(mv).coords
             timeDeltas == extractCoordinatesAndTimes(mv).timeDeltas
             distances == Distances(coords)
             velocities ==
                 [j \in DOMAIN distances |->
                     velocityPixelsPerSecond(distances[j], timeDeltas[j])]
             pauses == detectPauses(coords, timeDeltas)
             pauseCount == pauses[1]
             totalPauseMs == pauses[2]
             angles ==
                 [j \in 1..(Len(coords) - 2) |->
                     angleBetween(coords[j], coords[j + 1], coords[j + 2])]
             hoverMask == [j \in DOMAIN velocities |-> NLess(velocities[j], NOfInt(10))]
             hoverTimeMs ==
                 SumSeq([j \in DOMAIN velocities |->
                            IF hoverMask[j] THEN timeDeltas[j] ELSE 0])
             totalTimeMs == SumSeq(timeDeltas)
             hoverCount == Cardinality({j \in DOMAIN hoverMask : hoverMask[j]})
         IN ("mouseMoveCount" :> OfInt(Len(mv)))
            @@ ("mouseAvgVelocity" :> Float(NpMean(velocities)))
            @@ ("mouseStdVelocity" :>
                   IF Len(velocities) > 1 THEN NpStd(velocities) ELSE Zero)
            @@ ("mouseMaxVelocity" :> Float(NpMax(velocities)))
            @@ ("mousePauseCount" :> OfInt(pauseCount))
            @@ ("mouseAvgPauseDurationMs" :> OfQ(totalPauseMs, Max2(pauseCount, 1)))
            @@ ("mousePathEfficiency" :> Float(pathEfficiency(coords)))
            @@ ("mouseAngularVelocityStd" :>
                   IF Len(coords) >= 3 /\ Len(angles) > 1
                   THEN StdDev(angles, 0) ELSE Zero)
            @@ ("mouseHoverTimeRatio" :> OfQ(hoverTimeMs, Max2(totalTimeMs, 1)))
            @@ ("mouseHoverFrequency" :> OfQ(hoverCount, Max2(Len(hoverMask), 1)))

\* np.sum(intervals <= 500.0): the bound itself counted as rapid
rapidIntervalsInclusive(intervals) ==
    Cardinality({j \in DOMAIN intervals : NLeq(intervals[j], NOfInt(500))})

\* np.sum(intervals < 500.0), line 222
rapidIntervals(intervals) ==
    Cardinality({j \in DOMAIN intervals : NLess(intervals[j], NOfInt(500))})

\* sum(1 for b in buttons if b == 1): button code 1 taken as the left button
middleClicks(buttons) == Cardinality({j \in DOMAIN buttons : buttons[j] = 1})

\* sum(1 for b in buttons if b == 0), line 242
leftClicks(buttons) == Cardinality({j \in DOMAIN buttons : buttons[j] = 0})

\* extractClickFeatures raises KeyError: with more than one click line 213
\* reads c['ts'] of every click
clickKeyError(cl) == Len(cl) > 1 /\ KeyError(cl, "ts")

\* extractClickFeatures(clicks)
extractClickFeatures(cl) ==
    IF Len(cl) = 0
    THEN ("clickCount" :> Zero)
         @@ ("clickRatePerSec" :> Zero)
         @@ ("clickIntervalMeanMs" :> Zero)
         @@ ("clickIntervalStdMs" :> Zero)
         @@ ("clickIntervalMinMs" :> Zero)
         @@ ("clickIntervalMaxMs" :> Zero)
         @@ ("clickClusteringRatio" :> Zero)
         @@ ("clickLeftRatio" :> Zero)
    ELSE LET timestamps == [j \in DOMAIN cl |-> cl[j].ts]
             \* np.diff(timestamps)
             intervals ==
                 [j \in 1..(Len(cl) - 1) |-> NOfInt(timestamps[j + 1] - timestamps[j])]
             rapid == rapidIntervals(intervals)
             totalDurationMs == timestamps[Len(cl)] - timestamps[1]
             timing ==
                 IF Len(cl) > 1
                 THEN ("clickIntervalMeanMs" :> Float(NpMean(intervals)))
                      @@ ("clickIntervalStdMs" :>
                             IF Len(intervals) > 1 THEN NpStd(intervals) ELSE Zero)
                      @@ ("clickIntervalMinMs" :> Float(NpMin(intervals)))
                      @@ ("clickIntervalMaxMs" :> Float(NpMax(intervals)))
                      @@ ("clickClusteringRatio" :> OfQ(rapid, Len(intervals)))
                      @@ ("clickRatePerSec" :>
                             IF totalDurationMs > 0
                             THEN OfQ(Len(cl) * 1000, totalDurationMs) ELSE Zero)
                 ELSE ("clickRatePerSec" :> Zero)
                      @@ ("clickIntervalMeanMs" :> Zero)
                      @@ ("clickIntervalStdMs" :> Zero)
                      @@ ("clickIntervalMinMs" :> Zero)
                      @@ ("clickIntervalMaxMs" :> Zero)
                      @@ ("clickClusteringRatio" :> Zero)
             \* [c.get('button', 0) for c in clicks]
             buttons == [j \in DOMAIN cl |-> Get(cl[j], "button", 0)]
         IN ("clickCount" :> OfInt(Len(cl)))
            @@ timing
            @@ ("clickLeftRatio" :> OfQ(leftClicks(buttons), Len(cl)))

\* np.sum(delays <= 50.0): the bound itself counted as rapid
rapidPressesInclusive(delays) ==
    Cardinality({j \in DOMAIN delays : NLeq(delays[j], NOfInt(50))})

\* np.sum(delays < 50.0), line 276
rapidPresses(delays) ==
    Cardinality({j \in DOMAIN delays : NLess(delays[j], NOfInt(50))})

\* extractKeystrokeFeatures raises KeyError: with at least one key line 294
\* reads k['ts'] of every key (and interKeyDelays does with 2 or more keys)
keystrokeKeyError(ks) == Len(ks) > 0 /\ KeyError(ks, "ts")

\* extractKeystrokeFeatures(keys)
extractKeystrokeFeatures(ks) ==
    IF Len(ks) = 0
    THEN ("keyCount" :> Zero)
         @@ ("keyRatePerSec" :> Zero)
         @@ ("keyInterKeyDelayMeanMs" :> Zero)
         @@ ("keyInterKeyDelayStdMs" :> Zero)
         @@ ("keyEntropy" :> Zero)
         @@ ("keyRapidPresses" :> Zero)
    ELSE LET delays == [j \in DOMAIN interKeyDelays(ks) |-> NOfInt(interKeyDelays(ks)[j])]
             rapid == rapidPresses(delays)
             timing ==
                 IF Len(ks) > 1 /\ Len(delays) > 0
                 THEN ("keyInterKeyDelayMeanMs" :> Float(NpMean(delays)))
                      @@ ("keyInterKeyDelayStd" :>
                             IF Len(delays) > 1 THEN NpStd(delays) ELSE Zero)
                      @@ ("keyRapidPresses" :> OfInt(rapid))
                 ELSE ("keyInterKeyDelayMeanMs" :> Zero)
                      @@ ("keyInterKeyDelayStd" :> Zero)
                      @@ ("keyRapidPresses" :> Zero)
             \* [k.get('code', 'Unknown') for k in keys]
             keyCodes == [j \in DOMAIN ks |-> Get(ks[j], "code", "Unknown")]
             timestamps == [j \in DOMAIN ks |-> ks[j].ts]
             tsSet == Range(timestamps)
             durationMs ==
                 (CHOOSE a \in tsSet : \A b \in tsSet : a >= b)
                     - (CHOOSE a \in tsSet : \A b \in tsSet : a <= b)
         IN ("keyCount" :> OfInt(Len(ks)))
            @@ timing
            @@ ("keyEntropy" :> Float(calculateEntropy(keyCodes)))
            @@ ("keyRatePerSec" :>
                   IF Len(timestamps) >= 2
                   THEN OfQ(Len(ks) * 1000, Max2(durationMs, 1)) ELSE Zero)

\* allTimestamps[-1] - allTimestamps[0]: the span from the first to the last
\* pooled entry
lastMinusFirst(allTimestamps) == allTimestamps[Len(allTimestamps)] - allTimestamps[1]

\* max(allTimestamps) - min(allTimestamps), line 316
maxMinusMin(allTimestamps) ==
    LET tsSet == Range(allTimestamps)
    IN (CHOOSE a \in tsSet : \A b \in tsSet : a >= b)
           - (CHOOSE a \in tsSet : \A b \in tsSet : a <= b)

\* extractTemporalFeatures raises KeyError: lines 311-313 read the 'ts' of
\* every move, click and key
temporalKeyError(mv, cl, ks) ==
    KeyError(mv, "ts") \/ KeyError(cl, "ts") \/ KeyError(ks, "ts")

\* extractTemporalFeatures(moves, clicks, keys)
extractTemporalFeatures(mv, cl, ks) ==
    LET allTimestamps ==
            [j \in DOMAIN mv |-> mv[j].ts] \o [j \in DOMAIN cl |-> cl[j].ts]
                \o [j \in DOMAIN ks |-> ks[j].ts]
        batchDurationMs == maxMinusMin(allTimestamps)
        total == Len(mv) + Len(cl) + Len(ks)
        props == <<QNorm(Len(mv), total), QNorm(Len(cl), total), QNorm(Len(ks), total)>>
        duration ==
            IF Len(allTimestamps) >= 2
            THEN ("batchDurationMs" :> OfInt(batchDurationMs))
                 @@ ("eventRatePerSec" :> OfQ(total * 1000, Max2(batchDurationMs, 1)))
            ELSE ("batchDurationMs" :> Zero) @@ ("eventRatePerSec" :> Zero)
        diversity ==
            IF total > 0
            THEN ("signalDiversityEntropy" :> Float(calculateEntropy(props)))
            ELSE ("signalDiversityEntropy" :> Zero)
        ratios ==
            IF Len(mv) > 0
            THEN ("clickToMoveRatio" :> OfQ(Len(cl), Len(mv)))
                 @@ ("keyToMoveRatio" :> OfQ(Len(ks), Len(mv)))
            ELSE ("clickToMoveRatio" :> Zero) @@ ("keyToMoveRatio" :> Zero)
    IN duration @@ diversity @@ ratios

\* the simple counts and presence flags, lines 47-50
countFeatures(mv, cl, ks) ==
    ("batch_event_count" :> OfInt(Len(mv) + Len(cl) + Len(ks)))
    @@ ("has_mouse_moves" :> IF Len(mv) > 0 THEN OfInt(1) ELSE Zero)
    @@ ("has_clicks" :> IF Len(cl) > 0 THEN OfInt(1) ELSE Zero)
    @@ ("has_keys" :> IF Len(ks) > 0 THEN OfInt(1) ELSE Zero)

\* extractBatchFeatures(batchData), the whole call
extractBatchFeatures(mv, cl, ks) ==
    Update(Update(Update(Update(countFeatures(mv, cl, ks),
                                extractMouseFeatures(mv)),
                         extractClickFeatures(cl)),
                  extractKeystrokeFeatures(ks)),
           extractTemporalFeatures(mv, cl, ks))

\* ------------------------------------------------------------ inputs
PausePoints == {<<0, 0>>, <<3, 0>>, <<4, 3>>, <<10, 0>>}
PauseDeltas == {0, 400, 1000}
StartTs == 1000
ClickStartTs == 1050
KeyStartTs == 1020

\* move events with the given points and consecutive time deltas
MovesOf(pts, dts) ==
    [j \in 1..Len(pts) |->
        [x |-> pts[j][1], y |-> pts[j][2],
         ts |-> StartTs + SumSeq(Prefix(dts, j - 1))]]

\* the move lists detectPauses is run on: 2 .. MaxMoves samples
PauseInput(mv) ==
    \E n \in 2..MaxMoves :
        \E pts \in [1..n -> PausePoints], dts \in [1..(n - 1) -> PauseDeltas] :
            mv = MovesOf(pts, dts)

\* click events with the given buttons and consecutive time deltas
ClicksOf(buttons, dts) ==
    [j \in 1..Len(buttons) |->
        [ts |-> ClickStartTs + SumSeq(Prefix(dts, j - 1)), button |-> buttons[j]]]

\* key events with the given codes and consecutive time deltas
KeysOf(codes, dts) ==
    [j \in 1..Len(codes) |->
        [code |-> codes[j], ts |-> KeyStartTs + SumSeq(Prefix(dts, j - 1))]]

\* features: Dict[str, float] = {}
NoFeatures == [k \in {} |-> Zero]

\* a signals file that does not exist
NoFile == [exists |-> FALSE, lines |-> <<>>]

\* calculateEntropy has not returned
Pending == [t |-> "pending"]

\* calculateEntropy is not being called
NoEntropy ==
    /\ items = <<>>
    /\ entropy = Pending

\* no dataset is being built
NoDataset ==
    /\ jsonl = NoFile
    /\ signalsDf = <<>>
    /\ featureRows = <<>>
    /\ batchDf = <<>>
    /\ sessionRows = <<>>
    /\ sessionDf = <<>>
    /\ spc = "idle"

\* no second build, no skipped line
NoBuild ==
    /\ invalidCount = 0
    /\ returned = <<>>

\* no extractBatchFeatures call is running
NoCalls == call = <<>>

\* no server is running
NoServer ==
    /\ signalsFile = <<>>
    /\ request = <<>>

\* ------------------------------------------------------------ pause run
coordsOf == extractCoordinatesAndTimes(moves).coords
timeDeltasOf == extractCoordinatesAndTimes(moves).timeDeltas
NumSegments == Len(moves) - 1

InitPause ==
    /\ NoBuild
    /\ NoCalls
    /\ NoServer
    /\ PauseInput(moves)
    /\ clicks = <<>>
    /\ keys = <<>>
    /\ dp = DPStart
    /\ dpc = "loop"
    /\ features = NoFeatures
    /\ epc = "idle"
    /\ NoEntropy
    /\ NoDataset

\* one iteration of the for loop, lines 161-176
LoopBody ==
    /\ dpc = "loop"
    /\ dp.i < NumSegments
    /\ dp' = DPLoopBody(dp, Distances(coordsOf), timeDeltasOf)
    /\ dpc' = "endcheck"
    /\ UNCHANGED <<batchVars, buildVars, callVars, serverVars,
                   entropyVars, extractVars, datasetVars>>

\* lines 179-184, inside the same iteration
EndCheck ==
    /\ dpc = "endcheck"
    /\ dp' = DPEndCheck(dp, timeDeltasOf)
    /\ dpc' = "return"
    /\ UNCHANGED <<batchVars, buildVars, callVars, serverVars,
                   entropyVars, extractVars, datasetVars>>

\* line 186, inside the same iteration
Return ==
    /\ dpc = "return"
    /\ dpc' = "done"
    /\ UNCHANGED <<batchVars, buildVars, callVars, serverVars,
                   entropyVars, dp, extractVars, datasetVars>>

NextPause == LoopBody \/ EndCheck \/ Return

SpecPause == InitPause /\ [][NextPause]_vars

\* ------------------------------------------------------------ pandas
\* cells that are no floats
Str(str) == [t |-> "str", s |-> str]
None == [t |-> "none"]

\* Series.dropna(): NaN and None are missing
IsMissing(v) == v.t \in {"nan", "none"}

RECURSIVE SelectSeqBy(_, _)
SelectSeqBy(xs, keep) ==
    IF xs = <<>> THEN <<>>
    ELSE IF keep[1] THEN <<Head(xs)>> \o SelectSeqBy(Tail(xs), Tail(keep))
         ELSE SelectSeqBy(Tail(xs), Tail(keep))

dropna(values) == SelectSeqBy(values, [j \in DOMAIN values |-> ~IsMissing(values[j])])

\* pd.DataFrame(rows): the columns are the union of the rows' keys, a key a
\* row lacks is NaN in that row
DataFrame(rows) ==
    LET columns == UNION {DOMAIN rows[j] : j \in DOMAIN rows}
    IN [j \in DOMAIN rows |->
           [c \in columns |-> IF c \in DOMAIN rows[j] THEN rows[j][c] ELSE NaN]]

Columns(df) == IF df = <<>> THEN {} ELSE DOMAIN df[1]

\* Series.unique(), in order of first appearance, without removing repeats
KeepRepeats(xs) == xs

\* Series.unique(), in order of first appearance
RECURSIVE unique(_)
unique(xs) ==
    IF xs = <<>> THEN <<>>
    ELSE LET init == unique(Prefix(xs, Len(xs) - 1))
             last == xs[Len(xs)]
         IN IF last \in Range(init) THEN init ELSE Append(init, last)

AllNum(values) == \A j \in DOMAIN values : IsNum(values[j])
Nums(values) == [j \in DOMAIN values |-> values[j].v]

\* values in ascending order
RECURSIVE SortNums(_)
SortNums(xs) ==
    IF xs = <<>> THEN <<>>
    ELSE LET m == NpMin(xs)
             at == CHOOSE j \in DOMAIN xs : xs[j] = m /\ \A l \in 1..(j - 1) : xs[l] # m
         IN <<m>> \o SortNums(SelectSeqBy(xs, [j \in DOMAIN xs |-> j # at]))

\* Series.mean(), .min(), .max() of a non-empty series
SeriesMean(values) ==
    IF AllNum(values) THEN Float(NpMean(Nums(values)))
    ELSE [t |-> "mean", xs |-> values]
SeriesMin(values) ==
    IF AllNum(values) THEN Float(NpMin(Nums(values)))
    ELSE [t |-> "min", xs |-> values]
SeriesMax(values) ==
    IF AllNum(values) THEN Float(NpMax(Nums(values)))
    ELSE [t |-> "max", xs |-> values]

\* Series.std(): the sample standard deviation, ddof = 1
SeriesStd(values) == StdDev(values, 1)

\* Series.quantile(q), q = <<n, d>>: linear interpolation between the order
\* statistics around position q * (len - 1)
SeriesQuantile(values, q) ==
    IF AllNum(values)
    THEN LET sorted == SortNums(Nums(values))
             pos == QNorm(q[1] * (Len(sorted) - 1), q[2])
             lower == pos[1] \div pos[2]
             frac == QAdd(pos, <<0 - lower, 1>>)
         IN IF frac[1] = 0 THEN Float(sorted[lower + 1])
            ELSE Float(NAdd(sorted[lower + 1],
                            NScale(frac, NSub(sorted[lower + 2], sorted[lower + 1]))))
    ELSE [t |-> "quantile", xs |-> values, q |-> q]

\* ------------------------------------------------------------ DatasetBuilder
\* "Non-feature columns to exclude from aggregation"
exclude == {"sessionID", "timestamp", "timestampRelativeMs", "label"}

\* one row of buildBatchLevelDataset, lines 42-52
featureRow(row) ==
    Update(extractBatchFeatures(row.mouseMoves, row.clicks, row.keys),
           ("sessionID" :> Str(row.sessionID))
           @@ ("timestamp" :> OfInt(row.timestamp))
           @@ ("timestampRelativeMs" :> OfInt(row.timestampRelativeMs)))

\* featuresDf = pd.DataFrame(featureRows); featuresDf["label"] = None
featuresFrame(rows) ==
    LET df == DataFrame(rows)
    IN [j \in DOMAIN df |-> Update(df[j], "label" :> None)]

\* the six statistics of one column, lines 102-119, computed also when no
\* value is left
columnStatsNoDefault(col, values) ==
    IF Len(values) > 0
    THEN ((col \o "_mean") :> SeriesMean(values))
         @@ ((col \o "_std") :> SeriesStd(values))
         @@ ((col \o "_min") :> SeriesMin(values))
         @@ ((col \o "_max") :> SeriesMax(values))
         @@ ((col \o "_p50") :> SeriesQuantile(values, <<1, 2>>))
         @@ ((col \o "_p95") :> SeriesQuantile(values, <<19, 20>>))
    ELSE ((col \o "_mean") :> NaN)
         @@ ((col \o "_std") :> NaN)
         @@ ((col \o "_min") :> NaN)
         @@ ((col \o "_max") :> NaN)
         @@ ((col \o "_p50") :> NaN)
         @@ ((col \o "_p95") :> NaN)

\* the six statistics of one column, lines 102-119; values is the column
\* after dropna()
columnStats(col, values) ==
    IF Len(values) > 0
    THEN ((col \o "_mean") :> SeriesMean(values))
         @@ ((col \o "_std") :> SeriesStd(values))
         @@ ((col \o "_min") :> SeriesMin(values))
         @@ ((col \o "_max") :> SeriesMax(values))
         @@ ((col \o "_p50") :> SeriesQuantile(values, <<1, 2>>))
         @@ ((col \o "_p95") :> SeriesQuantile(values, <<19, 20>>))
    ELSE ((col \o "_mean") :> Zero)
         @@ ((col \o "_std") :> Zero)
         @@ ((col \o "_min") :> Zero)
         @@ ((col \o "_max") :> Zero)
         @@ ((col \o "_p50") :> Zero)
         @@ ((col \o "_p95") :> Zero)

RECURSIVE allColumnStats(_, _)
allColumnStats(cols, sessionData) ==
    IF cols = {} THEN NoFeatures
    ELSE LET col == CHOOSE c \in cols : TRUE
             values == dropna([j \in DOMAIN sessionData |-> sessionData[j][col]])
         IN Update(allColumnStats(cols \ {col}, sessionData), columnStats(col, values))

\* the session ids in an order that depends on the builds made before
sessionIdsByBuild(df) ==
    LET ids == unique([j \in DOMAIN df |-> df[j]["sessionID"]])
    IN IF returned = <<>> THEN ids
       ELSE [j \in DOMAIN ids |-> ids[Len(ids) + 1 - j]]

\* the session ids the loop of line 97 runs over
sessionIds(df) == unique([j \in DOMAIN df |-> df[j]["sessionID"]])

\* one row of buildSessionLevelDataset, lines 98-121
sessionRow(df, sessionId) ==
    LET featureCols == Columns(df) \ exclude
        sessionData == SelectSeqBy(df, [j \in DOMAIN df |-> df[j]["sessionID"] = sessionId])
    IN Update(Update(("sessionID" :> sessionId) @@ ("batchCount" :> OfInt(Len(sessionData))),
                     allColumnStats(featureCols, sessionData)),
              "label" :> None)

\* ---------------------------------------------------------- SignalDataLoader
\* _validateRecord(record) with every record accepted
acceptAnyRecord(record) == TRUE

\* _validateRecord(record), lines 75-86: the three top-level fields are
\* present, and each of mouseMoves, clicks, keys found in signals is a list;
\* nonList holds the sub-fields of a signals object that are no lists, and in
\* signals that is a JSON array no sub-field is found
validateRecord(record) ==
    /\ {"sessionID", "signals", "metadata"} \subseteq record.fields
    /\ (record.signalsType = "dict" => record.nonList = {})

\* lines 43-52 raise AttributeError: record.get("signals", {}).get(...) on
\* signals that is no object
flattenRaises(record) == record.signalsType # "dict"

\* normalizeTimestamps(df), lines 89-105: the offset of each row from the
\* earliest row of its session, in milliseconds; timestamps are in seconds
normalizeTimestamps(df) ==
    [j \in DOMAIN df |->
        LET group == {a \in DOMAIN df : df[a].sessionID = df[j].sessionID}
            sessionStart ==
                CHOOSE t \in {df[a].timestamp : a \in group} :
                    \A a \in group : t <= df[a].timestamp
        IN [sessionID |-> df[j].sessionID,
            timestamp |-> df[j].timestamp,
            timestampRelativeMs |-> 1000 * (df[j].timestamp - sessionStart),
            mouseMoves |-> df[j].mouseMoves,
            clicks |-> df[j].clicks,
            keys |-> df[j].keys]]

\* the locals of loadSignals before the loop, lines 31-32
LoadStart == [data |-> <<>>, invalidCount |-> 0]

\* one iteration of the loop of lines 35-59 on the record of line lineNum;
\* the record of line j was stored at second j
readLine(s, record, lineNum) ==
    IF ~record.decodes
    THEN [s EXCEPT !.invalidCount = @ + 1]                    \* lines 54-56
    ELSE IF ~validateRecord(record)
    THEN [s EXCEPT !.invalidCount = @ + 1]                    \* lines 38-41
    ELSE IF flattenRaises(record)
    THEN [s EXCEPT !.invalidCount = @ + 1]                    \* lines 57-59
    ELSE [s EXCEPT !.data =
              Append(@, [sessionID |-> record.sessionID,
                         timestamp |-> lineNum,
                         parses |-> record.timestampParses,
                         mouseMoves |-> record.signals.mouseMoves,
                         clicks |-> record.signals.clicks,
                         keys |-> record.signals.keys])]

\* the loop of lines 34-59 over the first n lines
RECURSIVE readLines(_, _)
readLines(lines, n) ==
    IF n = 0 THEN LoadStart
    ELSE readLine(readLines(lines, n - 1), lines[n], n)

\* normalizeTimestamps raises: pd.to_datetime (line 96) on a timestamp that
\* is no date, or astype(int) (line 101) on the NaN of a missing timestamp
normalizeRaises(data) == \E j \in DOMAIN data : ~data[j].parses

\* loadSignals(), lines 31-72: the frame returned when nothing is raised
loadSignals(lines) ==
    LET data == readLines(lines, Len(lines)).data
    IN IF Len(data) = 0 THEN <<>> ELSE normalizeTimestamps(data)

\* loadSignals() raises: lines 68-69 on a frame that is not empty
loadSignalsRaises(lines) == normalizeRaises(readLines(lines, Len(lines)).data)

\* ------------------------------------------------------------ dataset run
\* DatasetBuilder(signalsJsonlPath), dataset_builder.py lines 15-17:
\* SignalDataLoader.__init__ raises FileNotFoundError for a missing file
Construct ==
    /\ spc = "init"
    /\ spc' = IF jsonl.exists THEN "load" ELSE "raised"
    /\ UNCHANGED <<batchVars, buildVars, callVars, serverVars,
                   entropyVars, pauseVars, extractVars, jsonl,
                   signalsDf, featureRows, batchDf, sessionRows, sessionDf>>

\* signalsDf = self.loader.loadSignals(), line 30
LoadSignals ==
    /\ spc = "load"
    /\ invalidCount' = readLines(jsonl.lines, Len(jsonl.lines)).invalidCount
    /\ IF loadSignalsRaises(jsonl.lines)
       THEN signalsDf' = <<>> /\ spc' = "raised"
       ELSE signalsDf' = loadSignals(jsonl.lines) /\ spc' = "extract"
    /\ UNCHANGED <<batchVars, returned, callVars, serverVars,
                   entropyVars, pauseVars, extractVars, jsonl,
                   featureRows, batchDf, sessionRows, sessionDf>>

\* signalsDf is empty: lines 32-34
EmptyBatchDataset ==
    /\ spc = "extract"
    /\ Len(signalsDf) = 0
    /\ batchDf' = <<>>
    /\ spc' = "aggregate"
    /\ UNCHANGED <<batchVars, buildVars, callVars, serverVars,
                   entropyVars, pauseVars, extractVars, jsonl,
                   signalsDf, featureRows, sessionRows, sessionDf>>

\* one iteration of the loop of lines 38-54
ExtractRow ==
    /\ spc = "extract"
    /\ Len(featureRows) < Len(signalsDf)
    /\ featureRows' = Append(featureRows, featureRow(signalsDf[Len(featureRows) + 1]))
    /\ UNCHANGED <<batchVars, buildVars, callVars, serverVars,
                   entropyVars, pauseVars, extractVars, jsonl,
                   signalsDf, batchDf, sessionRows, sessionDf, spc>>

\* lines 56-70
BuildFrame ==
    /\ spc = "extract"
    /\ Len(signalsDf) > 0
    /\ Len(featureRows) = Len(signalsDf)
    /\ batchDf' = featuresFrame(featureRows)
    /\ spc' = "aggregate"
    /\ UNCHANGED <<batchVars, buildVars, callVars, serverVars,
                   entropyVars, pauseVars, extractVars, jsonl,
                   signalsDf, featureRows, sessionRows, sessionDf>>

\* batchDf is empty: lines 87-89
NoBatchData ==
    /\ spc = "aggregate"
    /\ Len(batchDf) = 0
    /\ sessionDf' = <<>>
    /\ spc' = "done"
    /\ UNCHANGED <<batchVars, buildVars, callVars, serverVars,
                   entropyVars, pauseVars, extractVars, jsonl,
                   signalsDf, featureRows, batchDf, sessionRows>>

\* one iteration of the loop of lines 97-122
AggregateSession ==
    /\ spc = "aggregate"
    /\ Len(batchDf) > 0
    /\ Len(sessionRows) < Len(sessionIds(batchDf))
    /\ sessionRows' =
           Append(sessionRows,
                  sessionRow(batchDf, sessionIds(batchDf)[Len(sessionRows) + 1]))
    /\ UNCHANGED <<batchVars, buildVars, callVars, serverVars,
                   entropyVars, pauseVars, extractVars, jsonl,
                   signalsDf, featureRows, batchDf, sessionDf, spc>>

\* lines 124-130
ReturnSessions ==
    /\ spc = "aggregate"
    /\ Len(batchDf) > 0
    /\ Len(sessionRows) = Len(sessionIds(batchDf))
    /\ sessionDf' = DataFrame(sessionRows)
    /\ spc' = "done"
    /\ UNCHANGED <<batchVars, buildVars, callVars, serverVars,
                   entropyVars, pauseVars, extractVars, jsonl,
                   signalsDf, featureRows, batchDf, sessionRows>>

NextSession ==
    \/ Construct
    \/ LoadSignals
    \/ EmptyBatchDataset
    \/ ExtractRow
    \/ BuildFrame
    \/ NoBatchData
    \/ AggregateSession
    \/ ReturnSessions

\* buildSessionLevelDataset(outputCSVPath) is called again on the same
\* DatasetBuilder: the caller keeps the frame the call before returned, and
\* the locals of the new call start as lines 31-32 of data_loader.py and
\* lines 36 and 95 of dataset_builder.py set them
Rebuild ==
    /\ spc = "done"
    /\ Len(returned) < MaxBuilds - 1
    /\ returned' = Append(returned, sessionDf)
    /\ invalidCount' = 0
    /\ signalsDf' = <<>>
    /\ featureRows' = <<>>
    /\ batchDf' = <<>>
    /\ sessionRows' = <<>>
    /\ sessionDf' = <<>>
    /\ spc' = "load"
    /\ UNCHANGED <<batchVars, callVars, serverVars, entropyVars, pauseVars,
                   extractVars, jsonl>>

NextRebuild == NextSession \/ Rebuild

\* the batches and session ids of the stored records
SessionIDs == {"sess-1", "sess-2"}
BatchShapes ==
    {[mouseMoves |-> <<>>, clicks |-> <<>>, keys |-> <<>>],
     [mouseMoves |-> <<>>, clicks |-> <<>>, keys |-> KeysOf(<<"KeyH">>, <<>>)],
     [mouseMoves |-> MovesOf(<<<<0, 0>>, <<3, 4>>>>, <<100>>),
      clicks |-> ClicksOf(<<0, 2>>, <<300>>),
      keys |-> KeysOf(<<"KeyH", "KeyE">>, <<60>>)]}

\* the lines of the signals file: a record of a session, a record without
\* its metadata, a line that is no JSON
EmptyShape == [mouseMoves |-> <<>>, clicks |-> <<>>, keys |-> <<>>]

Lines ==
    {[decodes |-> TRUE, fields |-> {"sessionID", "timestamp", "signals", "metadata"},
      sessionID |-> id, signals |-> shape, signalsType |-> "dict", nonList |-> {},
      timestampParses |-> TRUE] : id \in SessionIDs, shape \in BatchShapes}
    \cup {[decodes |-> TRUE, fields |-> {"sessionID", "timestamp", "signals"},
           sessionID |-> "sess-1",
           signals |-> [mouseMoves |-> <<>>, clicks |-> <<>>,
                        keys |-> KeysOf(<<"KeyH">>, <<>>)],
           signalsType |-> "dict", nonList |-> {}, timestampParses |-> TRUE],
          [decodes |-> FALSE, fields |-> {}, sessionID |-> "", signals |-> EmptyShape,
           signalsType |-> "dict", nonList |-> {}, timestampParses |-> TRUE]}

\* the signals file: missing, or 0 .. MaxBatches lines
JsonlFile(f) ==
    \/ f = NoFile
    \/ \E n \in 0..MaxBatches : \E lines \in [1..n -> Lines] :
           f = [exists |-> TRUE, lines |-> lines]

InitSession ==
    /\ NoBuild
    /\ NoCalls
    /\ NoServer
    /\ moves = <<>>
    /\ clicks = <<>>
    /\ keys = <<>>
    /\ dp = DPStart
    /\ dpc = "idle"
    /\ features = NoFeatures
    /\ epc = "idle"
    /\ NoEntropy
    /\ JsonlFile(jsonl)
    /\ signalsDf = <<>>
    /\ featureRows = <<>>
    /\ batchDf = <<>>
    /\ sessionRows = <<>>
    /\ sessionDf = <<>>
    /\ spc = "init"

SpecSession == InitSession /\ [][NextSession]_vars

\* the lines of the file that is built from twice: records of two sessions
\* without events or with moves, clicks and keys, the record without its
\* metadata, and the line that is no JSON
RebuildLines == {l \in Lines : "metadata" \in l.fields => Len(l.signals.keys) # 1}

InitRebuild ==
    /\ NoBuild
    /\ NoCalls
    /\ NoServer
    /\ moves = <<>>
    /\ clicks = <<>>
    /\ keys = <<>>
    /\ dp = DPStart
    /\ dpc = "idle"
    /\ features = NoFeatures
    /\ epc = "idle"
    /\ NoEntropy
    /\ \E n \in 0..MaxBatches : \E lines \in [1..n -> RebuildLines] :
           jsonl = [exists |-> TRUE, lines |-> lines]
    /\ signalsDf = <<>>
    /\ featureRows = <<>>
    /\ batchDf = <<>>
    /\ sessionRows = <<>>
    /\ sessionDf = <<>>
    /\ spc = "init"

SpecRebuild == InitRebuild /\ [][NextRebuild]_vars

\* ---------------------------------------------------------- parallel run
\* callers of extractBatchFeatures on one FeatureExtractor; the extractor's
\* own fields are pauseDistThresh and pauseDurThresh, set by __init__
Workers == 1..MaxWorkers

NoCall == [pc |-> "idle", batch |-> EmptyShape, features |-> NoFeatures]

\* the dict every call reads and updates, kept on the extractor
dictOfExtractor(w) == call[1].features

\* the dict a call reads and updates: its local features, line 39
dictOf(w) == call[w].features

\* extractBatchFeatures(batchData) is entered: lines 39-44
Extract(w) ==
    /\ call[w].pc = "idle"
    /\ \E b \in BatchShapes :
           call' = [call EXCEPT ![w] = [pc |-> "counts", batch |-> b,
                                        features |-> NoFeatures]]
    /\ UNCHANGED <<batchVars, buildVars, serverVars, entropyVars, pauseVars,
                   extractVars, datasetVars>>

\* lines 47-50
CallCounts(w) ==
    /\ call[w].pc = "counts"
    /\ call' = [call EXCEPT
                   ![w].features = Update(dictOf(w), countFeatures(call[w].batch.mouseMoves,
                                   call[w].batch.clicks, call[w].batch.keys)),
                   ![w].pc = "mouse"]
    /\ UNCHANGED <<batchVars, buildVars, serverVars, entropyVars, pauseVars,
                   extractVars, datasetVars>>

\* lines 53-54
CallMouse(w) ==
    /\ call[w].pc = "mouse"
    /\ call' = [call EXCEPT
                   ![w].features = Update(dictOf(w), extractMouseFeatures(call[w].batch.mouseMoves)),
                   ![w].pc = "click"]
    /\ UNCHANGED <<batchVars, buildVars, serverVars, entropyVars, pauseVars,
                   extractVars, datasetVars>>

\* lines 57-58
CallClick(w) ==
    /\ call[w].pc = "click"
    /\ call' = [call EXCEPT
                   ![w].features = Update(dictOf(w), extractClickFeatures(call[w].batch.clicks)),
                   ![w].pc = "keystroke"]
    /\ UNCHANGED <<batchVars, buildVars, serverVars, entropyVars, pauseVars,
                   extractVars, datasetVars>>

\* lines 61-62
CallKeystroke(w) ==
    /\ call[w].pc = "keystroke"
    /\ call' = [call EXCEPT
                   ![w].features = Update(dictOf(w), extractKeystrokeFeatures(call[w].batch.keys)),
                   ![w].pc = "temporal"]
    /\ UNCHANGED <<batchVars, buildVars, serverVars, entropyVars, pauseVars,
                   extractVars, datasetVars>>

\* lines 65-66
CallTemporal(w) ==
    /\ call[w].pc = "temporal"
    /\ call' = [call EXCEPT
                   ![w].features = Update(dictOf(w), extractTemporalFeatures(call[w].batch.mouseMoves,
                                   call[w].batch.clicks, call[w].batch.keys)),
                   ![w].pc = "return"]
    /\ UNCHANGED <<batchVars, buildVars, serverVars, entropyVars, pauseVars,
                   extractVars, datasetVars>>

\* return features, line 68
CallReturn(w) ==
    /\ call[w].pc = "return"
    /\ call' = [call EXCEPT ![w].features = dictOf(w), ![w].pc = "done"]
    /\ UNCHANGED <<batchVars, buildVars, serverVars, entropyVars, pauseVars,
                   extractVars, datasetVars>>

NextParallel ==
    \E w \in Workers :
        \/ Extract(w)
        \/ CallCounts(w)
        \/ CallMouse(w)
        \/ CallClick(w)
        \/ CallKeystroke(w)
        \/ CallTemporal(w)
        \/ CallReturn(w)

InitParallel ==
    /\ call = [w \in Workers |-> NoCall]
    /\ NoServer
    /\ NoBuild
    /\ moves = <<>>
    /\ clicks = <<>>
    /\ keys = <<>>
    /\ dp = DPStart
    /\ dpc = "idle"
    /\ features = NoFeatures
    /\ epc = "idle"
    /\ NoEntropy
    /\ NoDataset

SpecParallel == InitParallel /\ [][NextParallel]_vars

\* ------------------------------------------------ SignalCollector and app
\* isValidSignalBatch(data), helpers.py lines 44-58: a JSON array holds none
\* of the required fields as an element
isValidSignalBatch(data) ==
    /\ {"sessionID", "signals", "metadata"} \subseteq data.fields
    /\ (data.signalsType = "dict" => data.nonList = {})

\* isValidSignalBatch raises TypeError: 'key in signals' (line 55) on signals
\* that is null
isValidRaises(data) ==
    /\ {"sessionID", "signals", "metadata"} \subseteq data.fields
    /\ data.signalsType = "null"

\* 'not data', app.py line 77: an empty object is falsy
Falsy(data) == data.kind = "object" /\ data.fields = {}

\* the status saveSignals answers before anything is saved, lines 77-86 and
\* 103-104; 0 when the batch goes on to be saved. The 400 answer of line 84
\* calls data.keys(), which a JSON array does not have
statusBeforeSave(data) ==
    IF Falsy(data) THEN 400
    ELSE IF isValidRaises(data) THEN 500
    ELSE IF ~isValidSignalBatch(data)
    THEN (IF data.kind = "object" THEN 400 ELSE 500)
    ELSE 0

\* lines 45-46 of signal_collector.py: a timestamp is added if not present
Stamped(batchData) == [batchData EXCEPT !.fields = @ \cup {"timestamp"}]

\* the file after the line was written with the file opened as 'w'
writeLineTruncating(file, line) == <<line>>

\* the file after the line was written at its end, lines 49-50
writeLine(file, line) == Append(file, line)

\* the file after the line was written at the offset pos that the writer
\* took for the end of the file; the file is held as its lines, so a write
\* that lands on a line written in between takes that line's place
writeLineAt(file, pos, line) ==
    IF pos >= Len(file) THEN Append(file, line)
    ELSE [file EXCEPT ![pos + 1] = line]

\* getBatchCount(), lines 57-66
getBatchCount(file) == Len(file)

\* ------------------------------------------------------------ server run
\* the requests the server handles, each by a thread of its own
Threads == 1..MaxRequests

NoBody == [kind |-> "none", fields |-> {}, signalsType |-> "dict", nonList |-> {},
           sessionID |-> 0]

NoRequest == [pc |-> "idle", data |-> NoBody, status |-> 0, pos |-> 0,
              ok |-> FALSE, total |-> 0]

\* the JSON bodies client t posts: a batch without and with a timestamp, a
\* batch without metadata, a batch whose mouseMoves is no list, a batch
\* whose signals is null, an empty object, and a JSON array
Batch(t) ==
    [kind |-> "object", fields |-> {"sessionID", "signals", "metadata"},
     signalsType |-> "dict", nonList |-> {}, sessionID |-> t]

Bodies(t) ==
    {Batch(t),
     [Batch(t) EXCEPT !.fields = @ \cup {"timestamp"}],
     [Batch(t) EXCEPT !.fields = @ \ {"metadata"}],
     [Batch(t) EXCEPT !.nonList = {"mouseMoves"}],
     [Batch(t) EXCEPT !.signalsType = "null"],
     [Batch(t) EXCEPT !.fields = {}],
     [Batch(t) EXCEPT !.kind = "array", !.fields = {}]}

\* data = request.get_json(), app.py line 73
Post(t) ==
    /\ request[t].pc = "idle"
    /\ \E body \in Bodies(t) :
           request' = [request EXCEPT ![t].pc = "validate", ![t].data = body]
    /\ UNCHANGED <<batchVars, buildVars, callVars, signalsFile, entropyVars,
                   pauseVars, extractVars, datasetVars>>

\* the same, with no other request being handled
PostAlone(t) ==
    /\ \A u \in Threads : request[u].pc \in {"idle", "responded"}
    /\ Post(t)

\* app.py lines 77-86, and lines 103-104 for what they raise
Validate(t) ==
    /\ request[t].pc = "validate"
    /\ request' =
           IF statusBeforeSave(request[t].data) = 0
           THEN [request EXCEPT ![t].pc = "save"]
           ELSE [request EXCEPT ![t].pc = "responded",
                                ![t].status = statusBeforeSave(request[t].data)]
    /\ UNCHANGED <<batchVars, buildVars, callVars, signalsFile, entropyVars,
                   pauseVars, extractVars, datasetVars>>

\* saveSignalBatch, lines 45-49: the batch is stamped and the file opened
Open(t) ==
    /\ request[t].pc = "save"
    /\ request' = [request EXCEPT ![t].pc = "write",
                                  ![t].data = Stamped(request[t].data)]
    /\ UNCHANGED <<batchVars, buildVars, callVars, signalsFile, entropyVars,
                   pauseVars, extractVars, datasetVars>>

\* open (line 49) raises OSError: lines 53-55 return False
OpenFails(t) ==
    /\ request[t].pc = "save"
    /\ request' = [request EXCEPT ![t].pc = "respond",
                                  ![t].data = Stamped(request[t].data),
                                  ![t].ok = FALSE]
    /\ UNCHANGED <<batchVars, buildVars, callVars, signalsFile, entropyVars,
                   pauseVars, extractVars, datasetVars>>

\* lines 50-52 where the system appends the buffered line in one step when
\* the with block closes the file
AppendLine(t) ==
    /\ request[t].pc = "write"
    /\ signalsFile' = writeLine(signalsFile, request[t].data)
    /\ request' = [request EXCEPT ![t].pc = "respond", ![t].ok = TRUE]
    /\ UNCHANGED <<batchVars, buildVars, callVars, entropyVars,
                   pauseVars, extractVars, datasetVars>>

\* lines 50-52 where the runtime appends by seeking to the end of the file
\* and then writing: the seek
SeekEnd(t) ==
    /\ request[t].pc = "write"
    /\ request' = [request EXCEPT ![t].pc = "flush", ![t].pos = Len(signalsFile)]
    /\ UNCHANGED <<batchVars, buildVars, callVars, signalsFile, entropyVars,
                   pauseVars, extractVars, datasetVars>>

\* the write that follows the seek
WriteAtOffset(t) ==
    /\ request[t].pc = "flush"
    /\ signalsFile' = writeLineAt(signalsFile, request[t].pos, request[t].data)
    /\ request' = [request EXCEPT ![t].pc = "respond", ![t].ok = TRUE]
    /\ UNCHANGED <<batchVars, buildVars, callVars, entropyVars,
                   pauseVars, extractVars, datasetVars>>

\* app.py lines 93-101
Respond(t) ==
    /\ request[t].pc = "respond"
    /\ request' =
           IF request[t].ok
           THEN [request EXCEPT ![t].pc = "responded", ![t].status = 200,
                                ![t].total = getBatchCount(signalsFile)]
           ELSE [request EXCEPT ![t].pc = "responded", ![t].status = 500]
    /\ UNCHANGED <<batchVars, buildVars, callVars, signalsFile, entropyVars,
                   pauseVars, extractVars, datasetVars>>

\* the handler after the request was read
Handle(t) ==
    \/ Validate(t)
    \/ Open(t)
    \/ OpenFails(t)
    \/ AppendLine(t)
    \/ SeekEnd(t)
    \/ WriteAtOffset(t)
    \/ Respond(t)

NextServer == \E t \in Threads : Post(t) \/ Handle(t)

NextCollector == \E t \in Threads : PostAlone(t) \/ Handle(t)

\* a line an earlier run of the server saved
EarlierLine == Stamped(Batch(0))

\* SignalCollector(): the file exists (lines 35-39), empty or with the
\* lines of earlier runs
InitServer ==
    /\ signalsFile \in {<<>>, <<EarlierLine>>}
    /\ request = [t \in Threads |-> NoRequest]
    /\ NoCalls
    /\ NoBuild
    /\ moves = <<>>
    /\ clicks = <<>>
    /\ keys = <<>>
    /\ dp = DPStart
    /\ dpc = "idle"
    /\ features = NoFeatures
    /\ epc = "idle"
    /\ NoEntropy
    /\ NoDataset

SpecServer == InitServer /\ [][NextServer]_vars

SpecCollector == InitServer /\ [][NextCollector]_vars

\* ------------------------------------------------------------ loader run
\* the lines a signals file can hold: records of two sessions, a record
\* without its metadata, a line that is no JSON, a record whose mouseMoves
\* is no list, a record whose signals is a JSON array, and a record whose
\* timestamp is no date (saveSignalBatch keeps the timestamp of the client)
GoodLine(id, shape) ==
    [decodes |-> TRUE, fields |-> {"sessionID", "timestamp", "signals", "metadata"},
     sessionID |-> id, signals |-> shape, signalsType |-> "dict", nonList |-> {},
     timestampParses |-> TRUE]

LoaderLines ==
    {GoodLine("sess-1", EmptyShape),
     GoodLine("sess-2", [EmptyShape EXCEPT !.keys = KeysOf(<<"KeyH">>, <<>>)]),
     [GoodLine("sess-1", EmptyShape) EXCEPT !.fields = @ \ {"metadata"}],
     [GoodLine("", EmptyShape) EXCEPT !.decodes = FALSE, !.fields = {}],
     [GoodLine("sess-1", EmptyShape) EXCEPT !.nonList = {"mouseMoves"}],
     [GoodLine("sess-2", EmptyShape) EXCEPT !.signalsType = "list"],
     [GoodLine("sess-2", EmptyShape) EXCEPT !.timestampParses = FALSE]}

InitLoad ==
    /\ NoCalls
    /\ NoServer
    /\ NoBuild
    /\ moves = <<>>
    /\ clicks = <<>>
    /\ keys = <<>>
    /\ dp = DPStart
    /\ dpc = "idle"
    /\ features = NoFeatures
    /\ epc = "idle"
    /\ NoEntropy
    /\ \/ jsonl = NoFile
       \/ \E n \in 0..MaxBatches : \E lines \in [1..n -> LoaderLines] :
              jsonl = [exists |-> TRUE, lines |-> lines]
    /\ signalsDf = <<>>
    /\ featureRows = <<>>
    /\ batchDf = <<>>
    /\ sessionRows = <<>>
    /\ sessionDf = <<>>
    /\ spc = "init"

NextLoad == Construct \/ LoadSignals

SpecLoad == InitLoad /\ [][NextLoad]_vars

\* ------------------------------------------------------ extraction run
\* extractBatchFeatures, statement by statement
Counts ==
    /\ epc = "counts"
    /\ features' = Update(features, countFeatures(moves, clicks, keys))
    /\ epc' = "mouse"
    /\ UNCHANGED <<batchVars, buildVars, callVars, serverVars,
                   entropyVars, pauseVars, datasetVars>>

\* lines 53-54; a KeyError leaves extractBatchFeatures without a result
Mouse ==
    /\ epc = "mouse"
    /\ IF mouseKeyError(moves)
       THEN features' = NoFeatures /\ epc' = "raised"
       ELSE features' = Update(features, extractMouseFeatures(moves)) /\ epc' = "click"
    /\ UNCHANGED <<batchVars, buildVars, callVars, serverVars,
                   entropyVars, pauseVars, datasetVars>>

\* lines 57-58; a KeyError leaves extractBatchFeatures without a result
Click ==
    /\ epc = "click"
    /\ IF clickKeyError(clicks)
       THEN features' = NoFeatures /\ epc' = "raised"
       ELSE features' = Update(features, extractClickFeatures(clicks)) /\ epc' = "keystroke"
    /\ UNCHANGED <<batchVars, buildVars, callVars, serverVars,
                   entropyVars, pauseVars, datasetVars>>

\* lines 61-62; a KeyError leaves extractBatchFeatures without a result
Keystroke ==
    /\ epc = "keystroke"
    /\ IF keystrokeKeyError(keys)
       THEN features' = NoFeatures /\ epc' = "raised"
       ELSE features' = Update(features, extractKeystrokeFeatures(keys)) /\ epc' = "temporal"
    /\ UNCHANGED <<batchVars, buildVars, callVars, serverVars,
                   entropyVars, pauseVars, datasetVars>>

\* lines 65-66; a KeyError leaves extractBatchFeatures without a result
Temporal ==
    /\ epc = "temporal"
    /\ IF temporalKeyError(moves, clicks, keys)
       THEN features' = NoFeatures /\ epc' = "raised"
       ELSE features' = Update(features, extractTemporalFeatures(moves, clicks, keys)) /\ epc' = "return"
    /\ UNCHANGED <<batchVars, buildVars, callVars, serverVars,
                   entropyVars, pauseVars, datasetVars>>

\* line 68
ReturnFeatures ==
    /\ epc = "return"
    /\ epc' = "done"
    /\ UNCHANGED <<batchVars, buildVars, callVars, serverVars,
                   entropyVars, pauseVars, features, datasetVars>>

NextExtract == Counts \/ Mouse \/ Click \/ Keystroke \/ Temporal \/ ReturnFeatures

InitExtract ==
    /\ NoBuild
    /\ NoCalls
    /\ NoServer
    /\ dp = DPStart
    /\ dpc = "idle"
    /\ features = NoFeatures
    /\ epc = "counts"
    /\ NoEntropy
    /\ NoDataset

\* batches that differ in movement only
GridPoints == {<<0, 0>>, <<1, 1>>, <<3, 3>>, <<3, 0>>, <<4, 3>>}
MouseDeltas == {0, 100}

MouseInput(mv) ==
    \E n \in 0..MaxPath :
        \E pts \in [1..n -> GridPoints], dts \in [1..(n - 1) -> MouseDeltas] :
            mv = MovesOf(pts, dts)

InitMouse ==
    /\ MouseInput(moves)
    /\ clicks = <<>>
    /\ keys = <<>>
    /\ InitExtract

SpecMouse == InitMouse /\ [][NextExtract]_vars

\* batches with 0 .. MaxEvents events of each signal type
BatchMoves(mv) ==
    \E n \in 0..MaxEvents : \E pts \in [1..n -> {<<0, 0>>, <<3, 4>>}] :
        mv = MovesOf(pts, [j \in 1..(n - 1) |-> 100])
BatchClicks(cl) ==
    \E n \in 0..MaxEvents :
        \E bs \in [1..n -> {0, 2}], dts \in [1..(n - 1) -> {0, 300}] :
            cl = ClicksOf(bs, dts)
BatchKeys(ks) ==
    \E n \in 0..MaxEvents : \E cs \in [1..n -> {"KeyH", "KeyE"}] :
        ks = KeysOf(cs, [j \in 1..(n - 1) |-> 60])

InitBatch ==
    /\ BatchMoves(moves)
    /\ BatchClicks(clicks)
    /\ BatchKeys(keys)
    /\ InitExtract

SpecBatch == InitBatch /\ [][NextExtract]_vars

\* ------------------------------------------------------ entropy call
\* KeystrokeUtils.calculateEntropy(items), called on its own
CalculateEntropy ==
    /\ entropy = Pending
    /\ entropy' = Float(calculateEntropy(items))
    /\ UNCHANGED <<batchVars, buildVars, callVars, serverVars,
                   items, pauseVars, extractVars, datasetVars>>

\* lists of 0 .. MaxItems items over three values
ItemValues == {"KeyH", "KeyE", "KeyL"}

InitEntropy ==
    /\ NoBuild
    /\ NoCalls
    /\ NoServer
    /\ moves = <<>>
    /\ clicks = <<>>
    /\ keys = <<>>
    /\ dp = DPStart
    /\ dpc = "idle"
    /\ features = NoFeatures
    /\ epc = "idle"
    /\ \E n \in 0..MaxItems : items \in [1..n -> ItemValues]
    /\ entropy = Pending
    /\ NoDataset

SpecEntropy == InitEntropy /\ [][CalculateEntropy]_vars

\* batches of clicks only: 0 .. MaxClicks clicks, among them the clicks of
\* the sample batch (lines 365-369)
ClickDeltas == {0, 300, 500, 550}

ClickInput(cl) ==
    \E n \in 0..MaxClicks :
        \E bs \in [1..n -> {0, 2}], dts \in [1..(n - 1) -> ClickDeltas] :
            cl = ClicksOf(bs, dts)

InitClick ==
    /\ moves = <<>>
    /\ ClickInput(clicks)
    /\ keys = <<>>
    /\ InitExtract

SpecClick == InitClick /\ [][NextExtract]_vars

\* batches of keys only: 0 .. MaxKeys keys, and the keys of the sample batch
\* (lines 370-376)
KeyCodes == {"KeyH", "KeyE", "KeyL"}
KeyDeltas == {40, 50}

KeyInput(ks) ==
    \E n \in 0..MaxKeys :
        \E cs \in [1..n -> KeyCodes], dts \in [1..(n - 1) -> KeyDeltas] :
            ks = KeysOf(cs, dts)

SampleKeys == KeysOf(<<"KeyH", "KeyE", "KeyL", "KeyL", "KeyO">>, <<60, 80, 70, 120>>)

InitKey ==
    /\ moves = <<>>
    /\ clicks = <<>>
    /\ (KeyInput(keys) \/ keys = SampleKeys)
    /\ InitExtract

SpecKey == InitKey /\ [][NextExtract]_vars

\* batches whose events may lack a field: upstream validation
\* (SignalDataLoader._validateRecord) checks that the three signals are
\* lists, not the shape of their events
MoveEvents == {[x |-> 0, y |-> 0, ts |-> StartTs], [y |-> 0, ts |-> StartTs],
               [x |-> 0, y |-> 0]}
ClickEvents == {[ts |-> ClickStartTs, button |-> 2], [ts |-> ClickStartTs],
                [button |-> 2]}
KeyEvents == {[code |-> "KeyH", ts |-> KeyStartTs], [ts |-> KeyStartTs],
              [code |-> "KeyH"]}

EventList(events, kinds) ==
    \E n \in 0..MaxEvents : events \in [1..n -> kinds]

InitMalformed ==
    /\ EventList(moves, MoveEvents)
    /\ EventList(clicks, ClickEvents)
    /\ EventList(keys, KeyEvents)
    /\ InitExtract

SpecMalformed == InitMalformed /\ [][NextExtract]_vars

\* ================================================================ claims
\* ---- the Moving/Paused automaton of the design, stepped over all segments
\* state of the automaton after the first j segments
RECURSIVE AutomatonAfter(_, _, _)
AutomatonAfter(j, distances, timeDeltas) ==
    IF j = 0 THEN DPStart
    ELSE LET s == AutomatonAfter(j - 1, distances, timeDeltas)
             at == SumSeq(Prefix(timeDeltas, j - 1))
         IN IF RootLess(distances[j], pauseDistThresh)
            THEN IF s.isPaused THEN [s EXCEPT !.i = j]
                 ELSE [s EXCEPT !.i = j, !.isPaused = TRUE, !.pauseStartMs = at]
            ELSE IF s.isPaused /\ at - s.pauseStartMs >= pauseDurThresh
                 THEN [s EXCEPT !.i = j, !.isPaused = FALSE,
                                !.pauseCount = @ + 1,
                                !.totalPauseMs = @ + (at - s.pauseStartMs)]
                 ELSE [s EXCEPT !.i = j, !.isPaused = FALSE]

\* the automaton's result: all segments stepped, then the open pause flushed
AutomatonResult(distances, timeDeltas) ==
    LET s == AutomatonAfter(Len(distances), distances, timeDeltas)
        open == SumSeq(timeDeltas) - s.pauseStartMs
    IN IF s.isPaused /\ open >= pauseDurThresh
       THEN <<s.pauseCount + 1, s.totalPauseMs + open>>
       ELSE <<s.pauseCount, s.totalPauseMs>>

\* C1: detectPauses returns only after all n-1 segments have been examined,
\* and what it returns is the result of stepping the Moving/Paused automaton
\* over all of them.
C1_FullScan ==
    dpc = "done" =>
        /\ dp.i + 1 = NumSegments
        /\ <<dp.pauseCount, dp.totalPauseMs>>
               = AutomatonResult(Distances(coordsOf), timeDeltasOf)

\* ---- pauses of the input, as maximal runs of segments under the distance
\* threshold; a run is <<first, last>> (1-based segment numbers)
IsStill(j) == RootLess(Distances(coordsOf)[j], pauseDistThresh)

StillRuns ==
    {r \in (1..NumSegments) \X (1..NumSegments) :
        /\ r[1] <= r[2]
        /\ \A j \in r[1]..r[2] : IsStill(j)
        /\ (r[1] > 1 => ~IsStill(r[1] - 1))
        /\ (r[2] < NumSegments => ~IsStill(r[2] + 1))}

\* runs ended by a moving segment (a Paused->Moving transition) / still open
ClosedRuns == {r \in StillRuns : r[2] < NumSegments}
OpenRuns == {r \in StillRuns : r[2] = NumSegments}

\* elapsed offset at the start of the moving segment minus offset at pause start
ClosedDuration(r) ==
    SumSeq(Prefix(timeDeltasOf, r[2])) - SumSeq(Prefix(timeDeltasOf, r[1] - 1))
OpenDuration(r) ==
    SumSeq(timeDeltasOf) - SumSeq(Prefix(timeDeltasOf, r[1] - 1))

CountedRuns ==
    {r \in ClosedRuns : ClosedDuration(r) >= pauseDurThresh}
        \cup {r \in OpenRuns : OpenDuration(r) >= pauseDurThresh}

RunDuration(r) == IF r[2] < NumSegments THEN ClosedDuration(r) ELSE OpenDuration(r)

RECURSIVE SumDurations(_)
SumDurations(rs) ==
    IF rs = {} THEN 0
    ELSE LET r == CHOOSE q \in rs : TRUE
         IN RunDuration(r) + SumDurations(rs \ {r})

\* C6: every pause ended by a moving segment is counted if and only if its
\* duration reaches pauseDurThresh, and the returned totalPauseMs is the sum
\* of the durations of the counted pauses.
C6_PauseAccounting ==
    dpc = "done" =>
        /\ dp.pauseCount = Cardinality(CountedRuns)
        /\ dp.totalPauseMs = SumDurations(CountedRuns)

\* C7: the end-of-sequence check counts an open pause only when no later
\* segment remains to be examined.
C7_FlushOnlyAtEnd ==
    [][(dpc = "endcheck" /\ dp'.pauseCount > dp.pauseCount)
           => dp.i + 1 = NumSegments]_vars

\* ---- schema
\* C2: the feature mapping returned for a batch has the same key set as the
\* one returned for any other batch (here: the batch without events),
\* whatever the numbers of moves, clicks and keys.
C2_StableKeySet ==
    epc = "done" => DOMAIN features = DOMAIN extractBatchFeatures(<<>>, <<>>, <<>>)

\* ---- geometry
Cross(u, v) == u[1] * v[2] - u[2] * v[1]
Dot(u, v) == u[1] * v[1] + u[2] * v[2]
Minus(p, q) == <<p[1] - q[1], p[2] - q[2]>>

\* p2 lies strictly between p1 and p3 on one line
StraightThrough(p1, p2, p3) ==
    /\ Cross(Minus(p2, p1), Minus(p3, p2)) = 0
    /\ Dot(Minus(p2, p1), Minus(p3, p2)) > 0

\* the path turns back onto its starting point
Reversal(p1, p2, p3) == p3 = p1 /\ p2 # p1

\* C4: the turning angle at the middle point of three consecutive samples is
\* 0 when they lie on a straight line traversed in one direction and pi when
\* the path reverses onto the first point.
C4_StraightZeroReversalPi ==
    epc = "done" =>
        \A j \in 1..(Len(moves) - 2) :
            LET p1 == coordsOf[j]
                p2 == coordsOf[j + 1]
                p3 == coordsOf[j + 2]
            IN /\ StraightThrough(p1, p2, p3) => angleBetween(p1, p2, p3) = Zero
               /\ Reversal(p1, p2, p3) => angleBetween(p1, p2, p3) = Pi

\* all samples on one line, no step against the direction first -> last
CollinearAdvancing(coords) ==
    \A j \in 1..(Len(coords) - 1) :
        /\ Cross(Minus(coords[j + 1], coords[j]),
                 Minus(coords[Len(coords)], coords[1])) = 0
        /\ Dot(Minus(coords[j + 1], coords[j]),
               Minus(coords[Len(coords)], coords[1])) >= 0
        /\ (coords[Len(coords)] = coords[1] => coords[j + 1] = coords[j])

PathLength(coords) ==
    NSumSeq([j \in 1..(Len(coords) - 1) |-> RootNum(distance(coords[j], coords[j + 1]))])

AtLeastOne(v) == IsNum(v) /\ NLeq(NOfInt(1), v.v)

\* C5 as stated: with at least 2 samples mousePathEfficiency >= 1.0, and it
\* is 1.0 when the samples are collinear and advance in one direction.
C5_EfficiencyAtLeastOne ==
    (epc = "done" /\ Len(moves) >= 2) =>
        /\ AtLeastOne(features["mousePathEfficiency"])
        /\ (CollinearAdvancing(coordsOf)
               => features["mousePathEfficiency"] = OfInt(1))

\* C5 amended: with at least 2 samples and a total path length of at least
\* 1 px, mousePathEfficiency >= 1.0, and it is 1.0 when the samples are
\* collinear and advance in one direction.
C5_EfficiencyOfMovingPath ==
    (epc = "done" /\ Len(moves) >= 2 /\ NLeq(NOfInt(1), PathLength(coordsOf))) =>
        /\ AtLeastOne(features["mousePathEfficiency"])
        /\ (CollinearAdvancing(coordsOf)
               => features["mousePathEfficiency"] = OfInt(1))

\* a straight path of three samples with irrational segment lengths, extracted
C5_Witness ==
    /\ epc = "done"
    /\ Len(moves) >= 3
    /\ CollinearAdvancing(coordsOf)
    /\ NLeq(NOfInt(1), PathLength(coordsOf))
    /\ ~NIsRational(PathLength(coordsOf))
    /\ coordsOf[1] # coordsOf[2] /\ coordsOf[2] # coordsOf[3]

\* ---- signal diversity
\* - sum p * log2(p) over the non-zero shares n / total
RECURSIVE ShannonOfCounts(_, _)
ShannonOfCounts(ns, total) ==
    IF ns = <<>> THEN NZero
    ELSE NAdd(IF Head(ns) = 0 THEN NZero
              ELSE NScale(<<Head(ns), total>>,
                          NSub(Log2Num(total), Log2Num(Head(ns)))),
              ShannonOfCounts(Tail(ns), total))

\* C8: signalDiversityEntropy is the Shannon entropy of the shares of moves,
\* clicks and keys in the batch, and 0.0 for a batch without events.
C8_DiversityIsShannonOfShares ==
    epc = "done" =>
        features["signalDiversityEntropy"]
            = Float(ShannonOfCounts(<<Len(moves), Len(clicks), Len(keys)>>,
                                    Len(moves) + Len(clicks) + Len(keys)))

\* ---- session aggregation
\* the rows of the batch table that carry the session id of a session row
BatchRowsOf(sessionId) == {j \in DOMAIN batchDf : batchDf[j]["sessionID"] = sessionId}

\* the non-missing values of a column in the batch rows of a session
ValuesOf(sessionId, col) ==
    dropna(SelectSeqBy([j \in DOMAIN batchDf |-> batchDf[j][col]],
                       [j \in DOMAIN batchDf |-> j \in BatchRowsOf(sessionId)]))

FeatureCols == Columns(batchDf) \ exclude

StatKeys(col) ==
    {col \o "_mean", col \o "_std", col \o "_min", col \o "_max", col \o "_p50", col \o "_p95"}

\* C3: when exactly one batch of a session has a non-missing value v for a
\* feature, the session row has mean = min = max = p50 = p95 = v and std = 0.0.
C3_SingleValueStats ==
    spc = "done" =>
        \A r \in DOMAIN sessionDf : \A col \in FeatureCols :
            LET values == ValuesOf(sessionDf[r]["sessionID"], col)
            IN Len(values) = 1 =>
                   /\ \A k \in {col \o "_mean", col \o "_min", col \o "_max",
                                col \o "_p50", col \o "_p95"} :
                          sessionDf[r][k] = values[1]
                   /\ sessionDf[r][col \o "_std"] = Zero

RECURSIVE SumBatchCounts(_)
SumBatchCounts(rows) ==
    IF rows = <<>> THEN NZero
    ELSE NAdd(Head(rows)["batchCount"].v, SumBatchCounts(Tail(rows)))

\* C9: the session table has exactly one row per distinct sessionID of the
\* batch rows, each row's batchCount is the number of batch rows with that
\* sessionID, and the batchCounts add up to the number of batch rows.
C9_OneRowPerSession ==
    spc = "done" =>
        LET ids == {batchDf[j]["sessionID"] : j \in DOMAIN batchDf}
        IN /\ Len(sessionDf) = Cardinality(ids)
           /\ {sessionDf[r]["sessionID"] : r \in DOMAIN sessionDf} = ids
           /\ \A r \in DOMAIN sessionDf :
                  sessionDf[r]["batchCount"]
                      = OfInt(Cardinality(BatchRowsOf(sessionDf[r]["sessionID"])))
           /\ SumBatchCounts(sessionDf) = NOfInt(Len(batchDf))

\* two sessions built from three batches
C9_Witness ==
    /\ spc = "done"
    /\ Len(batchDf) = 3
    /\ Len(sessionDf) = 2

\* C10: every session row holds the six statistics of every feature column
\* of the batch table, and all six are 0.0 when the session has no
\* non-missing value in the column.
C10_SixStatsDefaultZero ==
    spc = "done" =>
        \A r \in DOMAIN sessionDf : \A col \in FeatureCols :
            /\ StatKeys(col) \subseteq DOMAIN sessionDf[r]
            /\ (Len(ValuesOf(sessionDf[r]["sessionID"], col)) = 0
                   => \A k \in StatKeys(col) : sessionDf[r][k] = Zero)

\* a session was aggregated that has no value in some column of the table
C10_Witness ==
    /\ spc = "done"
    /\ \E r \in DOMAIN sessionDf : \E col \in FeatureCols :
           Len(ValuesOf(sessionDf[r]["sessionID"], col)) = 0

\* C11: for a session with n >= 2 non-missing values of a feature,
\* {feature}_std is the population standard deviation of those values
\* (divisor n, not n - 1).
C11_PopulationStd ==
    spc = "done" =>
        \A r \in DOMAIN sessionDf : \A col \in FeatureCols :
            LET values == ValuesOf(sessionDf[r]["sessionID"], col)
            IN Len(values) >= 2 =>
                   sessionDf[r][col \o "_std"] = StdDev(values, 0)

\* ---- mouse features of short move lists
VelocityPauseAngleHoverKeys ==
    {"mouseAvgVelocity", "mouseStdVelocity", "mouseMaxVelocity",
     "mousePauseCount", "mouseAvgPauseDurationMs", "mousePathEfficiency",
     "mouseAngularVelocityStd", "mouseHoverTimeRatio", "mouseHoverFrequency"}

\* C12: in the mapping returned for a batch with fewer than 2 moves every
\* mouse velocity, pause, path-efficiency, angle and hover feature is 0.0 and
\* mouseMoveCount is the number of moves supplied.
C12_FewMovesAllZero ==
    (epc = "done" /\ Len(moves) < 2) =>
        /\ \A k \in VelocityPauseAngleHoverKeys : features[k] = Zero
        /\ features["mouseMoveCount"] = OfInt(Len(moves))

\* a batch with a single move, and clicks and keys besides, was extracted
C12_Witness ==
    /\ epc = "done"
    /\ Len(moves) = 1
    /\ Len(clicks) > 0
    /\ Len(keys) > 0
    /\ features["mouseMoveCount"] = OfInt(1)

\* ---- events that lack a required field
MissingField ==
    \/ KeyError(moves, "x") \/ KeyError(moves, "y") \/ KeyError(moves, "ts")
    \/ KeyError(clicks, "ts") \/ KeyError(clicks, "button")
    \/ KeyError(keys, "ts") \/ KeyError(keys, "code")

\* C13: when any event of the batch lacks a required field,
\* extractBatchFeatures fails to the caller: it never returns a feature
\* mapping, whatever the lengths of the three lists.
C13_MissingFieldFails ==
    MissingField => epc # "done"

\* ---- a signals file without a valid batch
\* the file exists and none of its lines is a JSON record that has a session
\* id, signals and metadata
YieldsNoValidBatch ==
    /\ jsonl.exists
    /\ \A j \in DOMAIN jsonl.lines :
           ~(/\ jsonl.lines[j].decodes
             /\ {"sessionID", "signals", "metadata"} \subseteq jsonl.lines[j].fields)

\* C14: when the signal source yields no valid batch, no error is raised,
\* buildBatchLevelDataset returns an empty table without extracting a row,
\* and buildSessionLevelDataset returns an empty table.
C14_NoBatchEmptyTables ==
    YieldsNoValidBatch =>
        /\ spc # "raised"
        /\ featureRows = <<>>
        /\ (spc \in {"aggregate", "done"} => batchDf = <<>>)
        /\ (spc = "done" => sessionDf = <<>>)

\* both builders returned for a file whose lines are all invalid
C14_Witness ==
    /\ spc = "done"
    /\ YieldsNoValidBatch
    /\ Len(jsonl.lines) >= 2
    /\ \E j \in DOMAIN jsonl.lines : jsonl.lines[j].decodes
    /\ \E j \in DOMAIN jsonl.lines : ~jsonl.lines[j].decodes
    /\ batchDf = <<>>
    /\ sessionDf = <<>>

\* ---- click rate
\* last timestamp minus first timestamp of the clicks
ClickSpan == clicks[Len(clicks)].ts - clicks[1].ts

\* count / max(span, epsilon) * 1000 for a positive epsilon <<n, d>>
RateOverFlooredSpan(epsilon) ==
    OfQ(Len(clicks) * 1000 * epsilon[2], Max2(ClickSpan * epsilon[2], epsilon[1]))

\* C15: for a click list with at least 2 clicks clickRatePerSec is
\* count / max(span, epsilon) * 1000 for a positive floor epsilon (1, 1/10 or
\* 1/1000 ms), also when all clicks share one timestamp.
C15_ClickRateFlooredSpan ==
    (epc = "done" /\ Len(clicks) >= 2) =>
        \E epsilon \in {<<1, 1>>, <<1, 10>>, <<1, 1000>>} :
            features["clickRatePerSec"] = RateOverFlooredSpan(epsilon)

\* ---- click buttons and the single click
ClickTimingKeys ==
    {"clickIntervalMeanMs", "clickIntervalStdMs", "clickIntervalMinMs",
     "clickIntervalMaxMs", "clickClusteringRatio", "clickRatePerSec"}

\* C16: for every non-empty click list clickLeftRatio is the number of clicks
\* with button code 0 over the number of clicks; with exactly one click the
\* interval mean, std, min and max, the clustering ratio and the click rate
\* are 0.0 and clickCount is 1.
C16_LeftRatioAndSingleClick ==
    (epc = "done" /\ Len(clicks) >= 1) =>
        /\ features["clickLeftRatio"]
               = OfQ(Cardinality({j \in DOMAIN clicks : clicks[j].button = 0}),
                     Len(clicks))
        /\ (Len(clicks) = 1 =>
               /\ \A k \in ClickTimingKeys : features[k] = Zero
               /\ features["clickCount"] = OfInt(1))

\* a single left click was extracted: no timing, left ratio 1.0
C16_Witness ==
    /\ epc = "done"
    /\ Len(clicks) = 1
    /\ clicks[1].button = 0
    /\ features["clickLeftRatio"] = OfInt(1)
    /\ features["clickRatePerSec"] = Zero

\* ---- inter-click intervals
\* the consecutive timestamp differences of the clicks, in capture order
ClickIntervals == [j \in 1..(Len(clicks) - 1) |-> clicks[j + 1].ts - clicks[j].ts]

ClickTimestamps == [j \in DOMAIN clicks |-> clicks[j].ts]

\* C17: for a click list with at least 2 clicks clickIntervalMeanMs, MinMs and
\* MaxMs are the mean, least and greatest consecutive timestamp difference
\* and clickClusteringRatio is the share of differences strictly below
\* 500 ms; timestamps 1050, 1600, 1900 give differences 550, 300, mean 425.0
\* and ratio 0.5.
C17_ClickIntervals ==
    (epc = "done" /\ Len(clicks) >= 2) =>
        LET ivs == ClickIntervals
            n == Len(ivs)
        IN /\ features["clickIntervalMeanMs"] = OfQ(SumSeq(ivs), n)
           /\ \E j \in 1..n :
                  /\ features["clickIntervalMinMs"] = OfInt(ivs[j])
                  /\ \A l \in 1..n : ivs[j] <= ivs[l]
           /\ \E j \in 1..n :
                  /\ features["clickIntervalMaxMs"] = OfInt(ivs[j])
                  /\ \A l \in 1..n : ivs[j] >= ivs[l]
           /\ features["clickClusteringRatio"]
                  = OfQ(Cardinality({j \in 1..n : ivs[j] < 500}), n)
           /\ (ClickTimestamps = <<1050, 1600, 1900>> =>
                  /\ ivs = <<550, 300>>
                  /\ features["clickIntervalMeanMs"] = OfInt(425)
                  /\ features["clickClusteringRatio"] = OfQ(1, 2))

\* the clicks of the sample batch were extracted
C17_Witness ==
    /\ epc = "done"
    /\ ClickTimestamps = <<1050, 1600, 1900>>
    /\ features["clickIntervalMeanMs"] = OfInt(425)
    /\ features["clickIntervalMinMs"] = OfInt(300)
    /\ features["clickIntervalMaxMs"] = OfInt(550)
    /\ features["clickClusteringRatio"] = OfQ(1, 2)

\* ---- keystroke counts and entropy
KeyCodesOf == [j \in DOMAIN keys |-> keys[j].code]

\* the consecutive timestamp differences of the keys
KeyDelays == [j \in 1..(Len(keys) - 1) |-> keys[j + 1].ts - keys[j].ts]

Occurrences(its, v) == Cardinality({j \in DOMAIN its : its[j] = v})

\* sum of n_v * log2(n_v) over the distinct values vs of its
RECURSIVE SumCountLog(_, _)
SumCountLog(its, vs) ==
    IF vs = {} THEN NZero
    ELSE LET v == CHOOSE w \in vs : TRUE
             n == Occurrences(its, v)
         IN NAdd(NScale(<<n, 1>>, Log2Num(n)), SumCountLog(its, vs \ {v}))

\* Shannon entropy of a non-empty sequence: log2(N) - (1/N) sum n_v log2(n_v)
ShannonOf(its) ==
    NSub(Log2Num(Len(its)),
         NScale(<<1, Len(its)>>, SumCountLog(its, Range(its))))

\* C18: keyCount is the length of the key list, keyRapidPresses the number
\* of consecutive inter-key delays strictly below 50 ms (0 with fewer than 2
\* keys), and keyEntropy the Shannon entropy of the key codes of every
\* non-empty list; codes H, E, L, L, O at 1020, 1080, 1160, 1230, 1350 give
\* keyCount 5, delays 60, 80, 70, 120 and keyRapidPresses 0.
C18_KeyCountRapidEntropy ==
    epc = "done" =>
        /\ features["keyCount"] = OfInt(Len(keys))
        /\ features["keyRapidPresses"]
               = OfInt(Cardinality({j \in DOMAIN KeyDelays : KeyDelays[j] < 50}))
        /\ (Len(keys) >= 1 => features["keyEntropy"] = Float(ShannonOf(KeyCodesOf)))
        /\ (keys = SampleKeys =>
               /\ features["keyCount"] = OfInt(5)
               /\ KeyDelays = <<60, 80, 70, 120>>
               /\ features["keyRapidPresses"] = Zero)

\* the keys of the sample batch were extracted
C18_Witness ==
    /\ epc = "done"
    /\ KeyCodesOf = <<"KeyH", "KeyE", "KeyL", "KeyL", "KeyO">>
    /\ [j \in DOMAIN keys |-> keys[j].ts] = <<1020, 1080, 1160, 1230, 1350>>
    /\ features["keyCount"] = OfInt(5)
    /\ features["keyRapidPresses"] = Zero
    /\ features["keyEntropy"] = Float(NSub(Log2Num(5), NOfQ(<<2, 5>>)))

\* ---- batch duration and event rate
\* the timestamps of all moves, clicks and keys of the batch
PooledTimestamps ==
    {moves[j].ts : j \in DOMAIN moves} \cup {clicks[j].ts : j \in DOMAIN clicks}
        \cup {keys[j].ts : j \in DOMAIN keys}

TotalEventCount == Len(moves) + Len(clicks) + Len(keys)

\* C19: with at least 2 pooled timestamps batchDurationMs is the greatest
\* minus the least of them and eventRatePerSec is
\* totalEventCount / max(batchDurationMs, 1.0) * 1000; with 0 or 1 pooled
\* timestamps both are 0.0.
C19_DurationAndEventRate ==
    epc = "done" =>
        IF TotalEventCount >= 2
        THEN \E hi \in PooledTimestamps, lo \in PooledTimestamps :
                 /\ \A t \in PooledTimestamps : lo <= t /\ t <= hi
                 /\ features["batchDurationMs"] = OfInt(hi - lo)
                 /\ features["eventRatePerSec"]
                        = OfQ(TotalEventCount * 1000, Max2(hi - lo, 1))
        ELSE /\ features["batchDurationMs"] = Zero
             /\ features["eventRatePerSec"] = Zero

\* a batch with moves, clicks and keys was extracted whose latest event is a
\* click and whose earliest is a move
C19_Witness ==
    /\ epc = "done"
    /\ Len(moves) = 2 /\ Len(clicks) = 2 /\ Len(keys) = 2
    /\ features["batchDurationMs"] = OfInt(350)
    /\ features["eventRatePerSec"] = OfQ(6000, 350)

\* ---- entropy of simple sequences
\* every distinct item of the argument occurs equally often
EquallyOften ==
    \A v \in Range(items), w \in Range(items) :
        Occurrences(items, v) = Occurrences(items, w)

\* C20: calculateEntropy returns 0.0 for an empty sequence, 0.0 for a
\* sequence holding one value repeated any number of times, and log2(k) for
\* a sequence in which k distinct items each occur equally often.
C20_EntropyOfSimpleSequences ==
    entropy # Pending =>
        /\ (Len(items) = 0 => entropy = Zero)
        /\ (Cardinality(Range(items)) = 1 => entropy = Zero)
        /\ ((Len(items) > 0 /\ EquallyOften) =>
               entropy = Float(Log2Num(Cardinality(Range(items)))))

\* the call returned log2(3) for three items that occur twice each
C20_Witness ==
    /\ Len(items) = 6
    /\ Cardinality(Range(items)) = 3
    /\ EquallyOften
    /\ entropy = Float(Log2Num(3))

\* ---- pause time against still time
\* the summed time deltas of the segments under the distance threshold
RECURSIVE StillTimeUpTo(_)
StillTimeUpTo(j) ==
    IF j = 0 THEN 0
    ELSE StillTimeUpTo(j - 1) + (IF IsStill(j) THEN timeDeltasOf[j] ELSE 0)

\* C24: for moves with non-decreasing timestamps the returned totalPauseMs
\* is at most the summed time deltas of the segments whose distance is under
\* the pause distance threshold, and the returned pauseCount is at most the
\* number of maximal runs of such segments.
C24_PauseWithinStillTime ==
    (dpc = "done" /\ \A j \in DOMAIN timeDeltasOf : timeDeltasOf[j] >= 0) =>
        /\ dp.totalPauseMs <= StillTimeUpTo(NumSegments)
        /\ dp.pauseCount <= Cardinality(StillRuns)

\* ---- loading the signals file
\* the lines that are valid JSON and pass _validateRecord
WellFormed == {j \in DOMAIN jsonl.lines :
                  jsonl.lines[j].decodes /\ validateRecord(jsonl.lines[j])}

\* C27: loadSignals never aborts on a bad line: a line that is not valid
\* JSON or fails _validateRecord is skipped and counted as invalid, every
\* other line yields exactly one loaded batch, and the loaded batches plus
\* the invalid count are the lines of the file.
C27_BadLinesSkippedOthersLoaded ==
    (jsonl.exists /\ spc \notin {"init", "load"}) =>
        /\ spc # "raised"
        /\ Len(signalsDf) = Cardinality(WellFormed)
        /\ invalidCount = Len(jsonl.lines) - Cardinality(WellFormed)
        /\ Len(signalsDf) + invalidCount = Len(jsonl.lines)

C21_FeaturesOfBatchAlone ==
    \A w \in DOMAIN call :
        call[w].pc = "done" =>
            call[w].features = extractBatchFeatures(call[w].batch.mouseMoves,
                                                    call[w].batch.clicks,
                                                    call[w].batch.keys)

\* two calls on batches with different feature dicts have both returned
C21_Witness ==
    \E w, x \in DOMAIN call :
        /\ call[w].pc = "done"
        /\ call[x].pc = "done"
        /\ call[w].batch.keys = <<>>
        /\ call[x].batch.keys # <<>>
        /\ call[w].features # call[x].features

\* ---- the signals file under the server
\* no request is being handled
Quiescent == \A t \in DOMAIN request : request[t].pc \in {"idle", "responded"}

\* the requests whose saveSignalBatch returned True
SavedTrue == {t \in DOMAIN request : request[t].ok}

\* the lines of the file that hold the batch of request t
LinesOf(t) == {j \in DOMAIN signalsFile : signalsFile[j] = request[t].data}

\* the lines the file held when the server started
EarlierLines == {j \in DOMAIN signalsFile : signalsFile[j].sessionID = 0}

\* C23: SignalCollector is safe for concurrent writes: after any
\* interleaving of saveSignalBatch calls that returned True the file holds
\* exactly one more line per call, each the complete record of one saved
\* batch, none lost, duplicated or overwritten.
C23_ConcurrentSavesAllKept ==
    Quiescent =>
        /\ Len(signalsFile) = Cardinality(EarlierLines) + Cardinality(SavedTrue)
        /\ \A t \in SavedTrue : Cardinality(LinesOf(t)) = 1

\* the body makes isValidSignalBatch return False
FailsValidation(data) == ~isValidRaises(data) /\ ~isValidSignalBatch(data)

\* C25: a POST whose body fails isValidSignalBatch is answered with status
\* 400 and adds no line to the signals file; every line of the file is a
\* batch that passed the validation.
C25_InvalidBodyAnswered400 ==
    /\ \A t \in DOMAIN request :
           (request[t].pc = "responded" /\ FailsValidation(request[t].data)) =>
               /\ request[t].status = 400
               /\ \A j \in DOMAIN signalsFile : signalsFile[j].sessionID # t
    /\ \A j \in DOMAIN signalsFile : isValidSignalBatch(signalsFile[j])

====
